---- MODULE Spec2Model ----
(***************************************************************************)
(* Model of the trade journal of sambot:                                   *)
(*   src/ai-brain/trade_tracking/trade_logger.py  (class TradeLogger)      *)
(* with the callers that construct one TradeLogger per call                *)
(*   src/ai-brain/trade_tracking/log_trade_api.py, update_trade_api.py     *)
(* and the long-lived instance of src/ai-brain/order_executor.py.          *)
(*                                                                         *)
(* A Python dict is a TLA+ function whose DOMAIN is the set of keys that   *)
(* are present: `k in d` is k \in DOMAIN d, d.get(k, v) is Get(d, k, v),   *)
(* d.update(p) is DictUpdate(d, p).  Timestamps are naturals (the strings  *)
(* '%Y-%m-%d %H:%M:%S' compare as the instants they denote).  A float      *)
(* quotient n / d is the reduced fraction <<n', d'>>.                      *)
(***************************************************************************)
EXTENDS Integers, Sequences, FiniteSets, TLC

\* ---------------------------------------------------------------- bounds
MaxTrades == 2      \* records a journal holds in the explored runs
MaxClock  == 1      \* last second datetime.now() reaches
MaxCalls  == 4      \* log_trade and update_trade calls made in a run
MaxBalance == 4     \* largest balance first passed to determine_lot_size, in BalanceStep
MaxDays   == 5      \* largest days_to_expiry passed to choose_expiry_strategy
MaxStrikes == 3     \* strikes of an option chain
MaxSignals == 5     \* micro-signals in a list handed to _determine_final_signal
MaxRetries == 3     \* largest max_retries passed to fetch_option_chain
MaxFetches == 2     \* successful fetch_data calls of an OptionChainManager
MaxScale == 3       \* largest factor the candles are scaled by
MaxShift == 2       \* largest shift of the candles, in ShiftStep

Loggers == {1, 2}   \* TradeLogger instances (one per process)

\* ----------------------------------------------------------- dict helpers
EmptyDict == [k \in {} |-> 0]

Has(d, k) == k \in DOMAIN d

Get(d, k, default) == IF k \in DOMAIN d THEN d[k] ELSE default

DictUpdate(d, p) ==
    [k \in (DOMAIN d) \cup (DOMAIN p) |-> IF k \in DOMAIN p THEN p[k] ELSE d[k]]

Abs(x) == IF x < 0 THEN -x ELSE x

RECURSIVE GCD(_, _)
GCD(a, b) == IF b = 0 THEN a ELSE GCD(b, a % b)

\* the float n / d (d > 0), as a reduced fraction
Frac(n, d) ==
    LET g == GCD(Abs(n), d) IN <<n \div g, d \div g>>

\* ------------------------------------------------------------ trade pnl
required_fields ==
    {"index", "signal", "entry_time", "entry_price", "quantity", "strike", "expiry"}

direction(signal) ==
    IF signal = "BUY CALL" THEN 1 ELSE IF signal = "BUY PUT" THEN -1 ELSE 0

\* ------------------------------------------------- update_performance
IsClosed(t) == t["status"] = "CLOSED"

RECURSIVE SumPnl(_)
SumPnl(s) == IF s = <<>> THEN 0 ELSE Get(Head(s), "pnl", 0) + SumPnl(Tail(s))

ExitKey(t) == Get(t, "exit_time", Get(t, "entry_time", 0))

\* sorted(closed_trades, key=exit_time or entry_time): Python's sort is stable
RECURSIVE InsertByExit(_, _)
InsertByExit(x, s) ==
    IF s = <<>> THEN <<x>>
    ELSE IF ExitKey(Head(s)) <= ExitKey(x)
         THEN <<Head(s)>> \o InsertByExit(x, Tail(s))
         ELSE <<x>> \o s

RECURSIVE SortedByExit(_)
SortedByExit(s) ==
    IF s = <<>> THEN <<>>
    ELSE InsertByExit(s[Len(s)], SortedByExit(SubSeq(s, 1, Len(s) - 1)))

RECURSIVE Cumulative(_, _)
Cumulative(s, acc) ==
    IF s = <<>> THEN <<>>
    ELSE LET c == acc + Get(Head(s), "pnl", 0) IN <<c>> \o Cumulative(Tail(s), c)

RECURSIVE DrawdownLoop(_, _, _)
DrawdownLoop(cum, peak, dd) ==
    IF cum = <<>> THEN dd
    ELSE LET pk == IF Head(cum) > peak THEN Head(cum) ELSE peak
             d  == pk - Head(cum)
         IN DrawdownLoop(Tail(cum), pk, IF d > dd THEN d ELSE dd)

max_drawdown(closed) ==
    IF Len(closed) > 1
    THEN LET cum == Cumulative(SortedByExit(closed), 0)
         IN DrawdownLoop(cum, cum[1], 0)
    ELSE 0

\* ------------------------------------------------------- _update_stats
\* st = <<current_is_win, current_streak, max_win_streak, max_loss_streak>>,
\* current_is_win is "None", "True" or "False"
Max2(a, b) == IF a > b THEN a ELSE b

RECURSIVE StreakLoop(_, _)
StreakLoop(s, st) ==
    IF s = <<>> THEN st
    ELSE LET is_win == IF Get(Head(s), "pnl", 0) > 0 THEN "True" ELSE "False"
             nxt == IF st[1] = "None" THEN <<is_win, 1, st[3], st[4]>>
                    ELSE IF st[1] = is_win THEN <<st[1], st[2] + 1, st[3], st[4]>>
                    ELSE IF st[1] = "True"
                         THEN <<is_win, 1, Max2(st[3], st[2]), st[4]>>
                         ELSE <<is_win, 1, st[3], Max2(st[4], st[2])>>
         IN StreakLoop(Tail(s), nxt)

RECURSIVE SumHold(_)
SumHold(s) ==
    IF s = <<>> THEN 0
    ELSE (Head(s)["exit_time"] - Head(s)["entry_time"]) + SumHold(Tail(s))

update_stats(trades) ==
    LET closed_trades == SelectSeq(trades, IsClosed)
        st    == StreakLoop(SortedByExit(closed_trades), <<"None", 0, 0, 0>>)
        fin   == IF st[1] = "None" THEN st
                 ELSE IF st[1] = "True"
                      THEN <<st[1], st[2], Max2(st[3], st[2]), st[4]>>
                      ELSE <<st[1], st[2], st[3], Max2(st[4], st[2])>>
        held  == SelectSeq(closed_trades,
                           LAMBDA t : Has(t, "entry_time") /\ Has(t, "exit_time"))
    IN IF closed_trades = <<>> THEN EmptyDict
       ELSE [max_win_streak  |-> fin[3],
             max_loss_streak |-> fin[4],
             avg_hold_time_minutes |->
                 IF held = <<>> THEN <<0, 1>> ELSE Frac(SumHold(held), Len(held))]

\* ------------------------------------------------- update_performance
Zero == <<0, 1>>          \* the number 0 where the other branch stores a quotient
Inf  == <<1, 0>>          \* float('inf')

HasStatus(t) == Has(t, "status")

AllHaveStatus(trades) == \A i \in 1..Len(trades) : HasStatus(trades[i])

\* variant: a trade with pnl 0 counted as a win
winning_trades_ge(closed_trades) ==
    SelectSeq(closed_trades, LAMBDA t : Get(t, "pnl", 0) >= 0)

winning_trades(closed_trades) ==
    SelectSeq(closed_trades, LAMBDA t : Get(t, "pnl", 0) > 0)

losing_trades(closed_trades) ==
    SelectSeq(closed_trades, LAMBDA t : Get(t, "pnl", 0) < 0)

\* the scalar keys of self.performance (by_index, by_signal, by_month and
\* last_updated are rebuilt by the same branches and are not modelled)
performance_of(trades) ==
    IF trades = <<>>
    THEN [total_trades |-> 0, win_rate |-> Zero, win_loss_ratio |-> Zero,
          total_pnl |-> 0, avg_pnl_per_trade |-> Zero, max_drawdown |-> 0,
          sharpe_ratio |-> 0]
    ELSE LET closed_trades  == SelectSeq(trades, IsClosed)
             winners        == winning_trades(closed_trades)
             losers         == losing_trades(closed_trades)
             total_pnl      == SumPnl(closed_trades)
         IN IF closed_trades = <<>>
            THEN [total_trades |-> 0, closed_trades |-> 0, open_trades |-> Len(trades),
                  win_rate |-> Zero, win_loss_ratio |-> Zero, total_pnl |-> 0,
                  avg_pnl_per_trade |-> Zero, max_drawdown |-> 0, sharpe_ratio |-> 0]
            ELSE [total_trades   |-> Len(trades),
                  closed_trades  |-> Len(closed_trades),
                  open_trades    |-> Len(trades) - Len(closed_trades),
                  winning_trades |-> Len(winners),
                  losing_trades  |-> Len(losers),
                  win_rate       |-> Frac(Len(winners), Len(closed_trades)),
                  win_loss_ratio |-> IF losers = <<>> THEN Inf
                                     ELSE Frac(Len(winners), Len(losers)),
                  total_pnl      |-> total_pnl,
                  avg_pnl_per_trade |-> Frac(total_pnl, Len(closed_trades)),
                  max_drawdown   |-> max_drawdown(closed_trades),
                  \* len(closed_trades) > 5 is beyond the journals explored
                  sharpe_ratio   |-> 0]

\* update_performance on the logger state L = [trades, performance, stats]:
\* the new state, whether it raised (KeyError on t['status'], line 256) and
\* whether it reached a _save_data of its final state
update_performance(L) ==
    IF L.trades # <<>> /\ ~AllHaveStatus(L.trades)
    THEN [raised |-> TRUE, saved |-> FALSE, L |-> L]
    ELSE LET perf == performance_of(L.trades)
             none_closed == L.trades = <<>> \/ SelectSeq(L.trades, IsClosed) = <<>>
         IN [raised |-> FALSE, saved |-> TRUE,
             L |-> [trades |-> L.trades, performance |-> perf,
                    stats |-> IF none_closed THEN L.stats ELSE update_stats(L.trades)]]

\* ------------------------------------------------------------- state
VARIABLES
    disk,    \* the log directory: trades.json, performance.json, stats.json
    inst,    \* the TradeLogger instances: trades, performance, stats in memory
    clock,   \* datetime.now(), in seconds
    calls,   \* log_trade and update_trade calls made so far
    last,    \* the last call made on a TradeLogger, its arguments and its outcome
    call,    \* a call of a function that keeps no state: its arguments and its result
    fetcher, \* OptionChainFetcher: the option chain it holds and underlying_value
    analyzer, \* OptionChainAnalyzer: the pcr and max_pain it stored
    manager, \* the OptionChainManager instances: their fetcher and analysis_results
    output_dir \* the files of the managers' output directory

vars == <<disk, inst, clock, calls, last, call, fetcher, analyzer, manager, output_dir>>

\* the components a run of the trade journal does not touch
others == <<call, fetcher, analyzer, manager, output_dir>>

NoPureCall == [fn |-> "none", done |-> FALSE]

NoFetcher == [data |-> <<>>, underlying_value |-> 0]

\* pcr and max_pain are None until the analyzer computes them
NoAnalyzer == [pcr |-> <<0, 1>>, has_pcr |-> FALSE, max_pain |-> 0, has_max_pain |-> FALSE]

\* no OptionChainManager is constructed and nothing is written
NoManager == manager = <<>> /\ output_dir = EmptyDict

Idle == call = NoPureCall /\ fetcher = NoFetcher /\ analyzer = NoAnalyzer /\ NoManager

\* a file is absent, holds a JSON document, or holds text json.load rejects
Absent   == [st |-> "absent", data |-> <<>>]
Bad      == [st |-> "bad", data |-> <<>>]
Json(d)  == [st |-> "ok", data |-> d]

Files == {"trades", "performance", "stats"}

\* TradeLogger.__init__ before _load_data
Fresh == [trades |-> <<>>, performance |-> EmptyDict, stats |-> EmptyDict]

\* TradeLogger._load_data: a file that does not exist keeps the default; an
\* exception while reading any of the three resets all three
load_data(d) ==
    IF \E f \in Files : d[f].st = "bad"
    THEN Fresh
    ELSE [f \in Files |-> IF d[f].st = "ok" THEN d[f].data ELSE Fresh[f]]

\* TradeLogger._save_data
save_data(L) == [f \in Files |-> Json(L[f])]

State(p) == [f \in Files |-> inst[p][f]]

\* "TRADE_{len(self.trades) + 1}_{now}"
TradeId(n, now) == <<n, now>>

\* the record log_trade builds from trade_data
new_trade(trade_data, trade_id, now) ==
    LET trade0 == DictUpdate([trade_id |-> trade_id, log_time |-> now,
                              status |-> Get(trade_data, "status", "OPEN")],
                             trade_data)
    IN IF Has(trade_data, "exit_price") /\ Has(trade_data, "exit_time")
          /\ ~Has(trade_data, "pnl")
       THEN DictUpdate(trade0,
              [pnl |-> direction(trade_data["signal"])
                       * (trade_data["exit_price"] - trade_data["entry_price"])
                       * trade_data["quantity"],
               status |-> "CLOSED"])
       ELSE trade0

\* variant: the required fields checked after the record is appended and saved
log_trade_late_check(L, d, trade_data, now) ==
    LET trade_id == TradeId(Len(L.trades) + 1, now)
        L1 == [L EXCEPT !.trades = Append(L.trades,
                   DictUpdate([trade_id |-> trade_id, log_time |-> now,
                               status |-> Get(trade_data, "status", "OPEN")], trade_data))]
    IN IF ~(required_fields \subseteq DOMAIN trade_data)
       THEN [L |-> L1, disk |-> save_data(L1), result |-> "ValueError", id |-> trade_id]
       ELSE LET L2 == [L EXCEPT !.trades = Append(L.trades,
                                              new_trade(trade_data, trade_id, now))]
                up == update_performance(L2)
            IN [L |-> up.L, disk |-> save_data(up.L), result |-> "ok", id |-> trade_id]

\* TradeLogger.log_trade(trade_data) on logger state L with directory d
log_trade(L, d, trade_data, now) ==
    LET trade_id == TradeId(Len(L.trades) + 1, now)
    IN IF ~(required_fields \subseteq DOMAIN trade_data)
       THEN [L |-> L, disk |-> d, result |-> "ValueError", id |-> trade_id]
       ELSE LET trade  == new_trade(trade_data, trade_id, now)
                L1 == [L EXCEPT !.trades = Append(L.trades, trade)]
                up == update_performance(L1)
            IN [L      |-> up.L,
                disk   |-> IF up.saved THEN save_data(up.L) ELSE save_data(L1),
                result |-> IF up.raised THEN "KeyError" ELSE "ok",
                id     |-> trade_id]

\* index of the first record with this trade_id, 0 when there is none
RECURSIVE FindTrade(_, _, _)
FindTrade(trades, trade_id, i) ==
    IF i > Len(trades) THEN 0
    ELSE IF trades[i]["trade_id"] = trade_id THEN i
    ELSE FindTrade(trades, trade_id, i + 1)

\* TradeLogger.update_trade(trade_id, update_data)
update_trade(L, d, trade_id, update_data) ==
    LET i == FindTrade(L.trades, trade_id, 1)
    IN IF i = 0
       THEN [L |-> L, disk |-> d, result |-> "False", idx |-> 0]
       ELSE LET t1 == DictUpdate(L.trades[i], update_data)
                exiting == Has(update_data, "exit_price") /\ Has(update_data, "exit_time")
            IN IF exiting /\ ~Has(t1, "status")
               THEN [L |-> [L EXCEPT !.trades[i] = t1], disk |-> d,
                     result |-> "KeyError", idx |-> i]
               ELSE LET t2 == IF exiting /\ t1["status"] # "CLOSED"
                              THEN DictUpdate(t1,
                                     [status |-> "CLOSED",
                                      pnl |-> direction(t1["signal"])
                                              * (t1["exit_price"] - t1["entry_price"])
                                              * t1["quantity"]])
                              ELSE t1
                        L1 == [L EXCEPT !.trades[i] = t2]
                        up == update_performance(L1)
                    IN [L      |-> up.L,
                        disk   |-> IF up.saved THEN save_data(up.L) ELSE save_data(L1),
                        result |-> IF up.raised THEN "KeyError" ELSE "True",
                        idx    |-> i]

\* --------------------------------------------------------------- inputs
Signals == {"BUY CALL", "BUY PUT"}

Base(s) == [index |-> "NIFTY", signal |-> s, entry_time |-> 1, entry_price |-> 100,
            quantity |-> 50, strike |-> 22500, expiry |-> 9]

ForeignId == TradeId(1, 0)     \* a trade_id supplied by the caller
NoSuchId  == TradeId(0, 0)     \* an id no log_trade returns

\* trade data without one of the required fields
Without(k) == [f \in required_fields \ {k} |-> Base("BUY CALL")[f]]

InvalidInputs == { Without("expiry"), Without("index"), Without("entry_price") }

TradeInputs ==
    { Base(s) : s \in Signals }
    \cup { [exit_time |-> 3, exit_price |-> 106] @@ Base("BUY PUT") }
    \cup { [trade_id |-> ForeignId] @@ Base("BUY CALL") }
    \cup InvalidInputs

Patches ==
    { [exit_time |-> 2, exit_price |-> 106] }
    \cup { [exit_time |-> 2, exit_price |-> 106, status |-> "CLOSED"] }
    \cup { [status |-> "CANCELLED"] }
    \cup { [quantity |-> 25] }

KnownIds(p) == { inst[p].trades[i]["trade_id"] : i \in 1..Len(inst[p].trades) }

\* -------------------------------------------------------------- actions
NoCall == [op |-> "none", p |-> 0, result |-> "", idx |-> 0, id |-> NoSuchId,
           arg |-> EmptyDict]

\* TradeLogger(log_dir): a new instance on the directory (a process start)
Construct(p) ==
    /\ inst' = [inst EXCEPT ![p] = [live |-> TRUE] @@ load_data(disk)]
    /\ last' = [NoCall EXCEPT !.op = "construct", !.p = p]
    /\ UNCHANGED <<disk, clock, calls>>
    /\ UNCHANGED others

LogTrade(p, trade_data) ==
    /\ inst[p].live
    /\ calls < MaxCalls
    /\ Len(inst[p].trades) < MaxTrades
    /\ LET r == log_trade(State(p), disk, trade_data, clock)
       IN /\ inst' = [inst EXCEPT ![p] = [live |-> TRUE] @@ r.L]
          /\ disk' = r.disk
          /\ last' = [op |-> "log_trade", p |-> p, result |-> r.result,
                      idx |-> IF r.result = "ValueError" THEN 0 ELSE Len(r.L.trades),
                      id |-> r.id, arg |-> trade_data]
          /\ calls' = calls + 1
    /\ UNCHANGED clock
    /\ UNCHANGED others

UpdateTrade(p, trade_id, update_data) ==
    /\ inst[p].live
    /\ calls < MaxCalls
    /\ LET r == update_trade(State(p), disk, trade_id, update_data)
       IN /\ inst' = [inst EXCEPT ![p] = [live |-> TRUE] @@ r.L]
          /\ disk' = r.disk
          /\ last' = [op |-> "update_trade", p |-> p, result |-> r.result,
                      idx |-> r.idx, id |-> trade_id, arg |-> update_data]
          /\ calls' = calls + 1
    /\ UNCHANGED clock
    /\ UNCHANGED others

Tick ==
    /\ clock < MaxClock
    /\ clock' = clock + 1
    /\ UNCHANGED <<disk, inst, calls, last>>
    /\ UNCHANGED others

NotLive == [live |-> FALSE] @@ Fresh

\* one long-lived TradeLogger on a new directory
Init ==
    /\ disk = [f \in Files |-> Absent]
    /\ inst = [p \in Loggers |-> IF p = 1 THEN [live |-> TRUE] @@ Fresh ELSE NotLive]
    /\ clock = 0
    /\ calls = 0
    /\ last = NoCall
    /\ Idle

Next ==
    \/ Tick
    \/ Construct(1)
    \/ \E d \in TradeInputs : LogTrade(1, d)
    \/ \E id \in KnownIds(1) \cup {NoSuchId}, u \in Patches : UpdateTrade(1, id, u)

Spec == Init /\ [][Next]_vars

\* =====================================================================
\* Claims about the journal of one TradeLogger (specification Spec)
\* =====================================================================
Journal(p) == inst[p].trades

IsHandlerCall(l) == l.op \in {"log_trade", "update_trade"}

Completed(l) == IsHandlerCall(l) /\ l.result \in {"ok", "True"}

\* C1: after any sequence of log_trade and update_trade calls every record
\* whose status is CLOSED has pnl = direction * (exit_price - entry_price) *
\* quantity, direction +1 for BUY CALL and -1 for BUY PUT.
C1_ClosedPnlIdentity ==
    \A p \in Loggers : \A i \in 1..Len(Journal(p)) :
        LET t == Journal(p)[i]
        IN (Has(t, "status") /\ t["status"] = "CLOSED")
           => /\ Has(t, "pnl") /\ Has(t, "exit_price")
              /\ t["pnl"] = (IF t["signal"] = "BUY CALL" THEN 1 ELSE -1)
                            * (t["exit_price"] - t["entry_price"]) * t["quantity"]

\* C2: update_trade on an existing trade with a patch holding exit_price and
\* exit_time leaves the record CLOSED, with the pnl of the patch's exit_price.
C2_ExitPatchClosesWithPnl ==
    (last.op = "update_trade" /\ last.result = "True"
       /\ Has(last.arg, "exit_price") /\ Has(last.arg, "exit_time"))
    => LET t == Journal(last.p)[last.idx]
       IN /\ t["status"] = "CLOSED"
          /\ Has(t, "pnl")
          /\ t["pnl"] = direction(t["signal"])
                        * (last.arg["exit_price"] - t["entry_price"]) * t["quantity"]

\* C3: update_trade changes only exit_time, exit_price, pnl, status, stop_loss,
\* target and notes of the addressed record; its trade_id, index, signal,
\* entry_time, entry_price, quantity, strike and expiry, and every other
\* record, are as before the call.
FrozenKeys ==
    {"trade_id", "index", "signal", "entry_time", "entry_price", "quantity",
     "strike", "expiry"}

UpdateStepOf(p) ==
    /\ last'.op = "update_trade"
    /\ last'.p = p

C3_UpdateFrame ==
    [][ \A p \in Loggers :
          UpdateStepOf(p) =>
            /\ Len(Journal(p)') = Len(Journal(p))
            /\ \A i \in 1..Len(Journal(p)) :
                 IF i = last'.idx
                 THEN \A k \in FrozenKeys :
                        /\ Has(Journal(p)'[i], k) = Has(Journal(p)[i], k)
                        /\ Has(Journal(p)[i], k) => Journal(p)'[i][k] = Journal(p)[i][k]
                 ELSE Journal(p)'[i] = Journal(p)[i] ]_vars

\* C5: after any sequence of log_trade calls the trade_id values of the
\* journal are pairwise distinct and their counters increase in log order.
C5_TradeIdsIncreasing ==
    \A p \in Loggers : \A i, j \in 1..Len(Journal(p)) :
        i < j => /\ Journal(p)[i]["trade_id"] # Journal(p)[j]["trade_id"]
                 /\ Journal(p)[i]["trade_id"][1] < Journal(p)[j]["trade_id"][1]

\* C7: when at least one record is CLOSED, performance.total_pnl is the sum
\* of pnl over the CLOSED records and performance.win_rate is the number of
\* CLOSED records with pnl > 0 divided by the number of CLOSED records.
ClosedIdx(T) == { i \in 1..Len(T) : T[i]["status"] = "CLOSED" }

WinIdx(T) == { i \in ClosedIdx(T) : Has(T[i], "pnl") /\ T[i]["pnl"] > 0 }

RECURSIVE PnlOver(_, _)
PnlOver(T, S) ==
    IF S = {} THEN 0
    ELSE LET i == CHOOSE x \in S : TRUE
         IN (IF Has(T[i], "pnl") THEN T[i]["pnl"] ELSE 0) + PnlOver(T, S \ {i})

C7_PerformanceTotals ==
    \A p \in Loggers :
        (inst[p].live /\ ClosedIdx(Journal(p)) # {})
        => LET perf == inst[p].performance
               T    == Journal(p)
           IN /\ Has(perf, "total_pnl") /\ Has(perf, "win_rate")
              /\ perf["total_pnl"] = PnlOver(T, ClosedIdx(T))
              /\ perf["win_rate"][1] * Cardinality(ClosedIdx(T))
                   = Cardinality(WinIdx(T)) * perf["win_rate"][2]
              /\ perf["win_rate"][2] > 0

\* a win and a closed record that is no win, after an update_trade
C7_Witness ==
    /\ last.op = "update_trade" /\ last.result = "True"
    /\ Cardinality(ClosedIdx(Journal(1))) = 2
    /\ Cardinality(WinIdx(Journal(1))) = 1
    /\ inst[1].performance["total_pnl"] # 0

\* C8: after each completed log_trade or update_trade, performance and stats,
\* in memory and in performance.json and stats.json, equal what a
\* recomputation from the current records yields.
C8_ViewsRecomputed ==
    Completed(last)
    => LET L == inst[last.p]
       IN /\ L.performance = performance_of(L.trades)
          /\ L.stats = update_stats(L.trades)
          /\ disk["performance"] = Json(performance_of(L.trades))
          /\ disk["stats"] = Json(update_stats(L.trades))

\* C9: log_trade with trade data lacking a required field fails and changes
\* neither the records, performance and stats in memory nor the three files.
C9_InvalidLogMutatesNothing ==
    [][ (last'.op = "log_trade" /\ ~(required_fields \subseteq DOMAIN last'.arg))
        => /\ last'.result = "ValueError"
           /\ inst' = inst
           /\ disk' = disk ]_vars

\* a rejected log_trade on a journal that already holds a closed record
C9_Witness ==
    /\ last.op = "log_trade" /\ last.result = "ValueError"
    /\ Len(Journal(1)) > 0
    /\ ClosedIdx(Journal(1)) # {}

\* =====================================================================
\* Two TradeLogger instances on one directory (specification SpecConc)
\* =====================================================================
ConcInputs == { Base("BUY CALL"), [exit_time |-> 3, exit_price |-> 106] @@ Base("BUY PUT") }

ConcPatches == { [exit_time |-> 2, exit_price |-> 106], [status |-> "CANCELLED"] }

InitConc ==
    /\ disk = [f \in Files |-> Absent]
    /\ inst = [p \in Loggers |-> NotLive]
    /\ clock = 0
    /\ calls = 0
    /\ last = NoCall
    /\ Idle

NextConc ==
    \/ Tick
    \/ \E p \in Loggers : Construct(p)
    \/ \E p \in Loggers, d \in ConcInputs : LogTrade(p, d)
    \/ \E p \in Loggers : \E id \in KnownIds(p) \cup {NoSuchId}, u \in ConcPatches :
           UpdateTrade(p, id, u)

SpecConc == InitConc /\ [][NextConc]_vars

DiskJournal == IF disk["trades"].st = "ok" THEN disk["trades"].data ELSE <<>>

\* C6: when two TradeLogger instances on one directory interleave, no completed
\* log or update is lost: a completed log_trade keeps every record trades.json
\* held, a completed update_trade keeps every record but the one it addresses.
C6_NoLostUpdate ==
    [][ Completed(last')
        => /\ Len(DiskJournal') >= Len(DiskJournal)
           /\ \A i \in 1..Len(DiskJournal) :
                (last'.op = "update_trade" /\ i = last'.idx)
                \/ DiskJournal'[i] = DiskJournal[i] ]_vars

\* =====================================================================
\* A TradeLogger started on a directory left by earlier runs (SpecDir)
\* =====================================================================
StoredOpen(n, now, s) ==
    DictUpdate([trade_id |-> TradeId(n, now), log_time |-> now, status |-> "OPEN"], Base(s))

StoredClosed(n, now, s) ==
    DictUpdate(StoredOpen(n, now, s),
               [exit_time |-> 2, exit_price |-> 106, status |-> "CLOSED",
                pnl |-> direction(s) * 6 * 50])

\* a record of trades.json without its status field
NoStatus(n, now, s) ==
    [k \in (DOMAIN StoredOpen(n, now, s)) \ {"status"} |-> StoredOpen(n, now, s)[k]]

AsSaved(T) ==
    [trades |-> Json(T), performance |-> Json(performance_of(T)),
     stats |-> Json(update_stats(T))]

\* performance.json or stats.json holds text json.load rejects when a writer
\* stopped between open(file, 'w'), which empties the file, and json.dump
InitialDirs ==
    LET J1 == <<StoredClosed(1, 0, "BUY CALL")>>
        J2 == <<StoredClosed(1, 0, "BUY CALL"), StoredOpen(2, 0, "BUY PUT")>>
    IN { AsSaved(J1), AsSaved(J2),
         [AsSaved(J1) EXCEPT !["performance"] = Bad],
         [AsSaved(J2) EXCEPT !["stats"] = Bad],
         [AsSaved(J1) EXCEPT !["trades"] =
              Json(<<StoredClosed(1, 0, "BUY CALL"), NoStatus(2, 0, "BUY CALL")>>)],
         [trades |-> Json(<<NoStatus(1, 0, "BUY CALL")>>),
          performance |-> Absent, stats |-> Absent] }

DirInputs == { Base("BUY CALL"), Without("expiry") }

DirPatches == { [exit_time |-> 2, exit_price |-> 106], [status |-> "CANCELLED"] }

InitDir ==
    /\ disk \in InitialDirs
    /\ inst = [p \in Loggers |-> NotLive]
    /\ clock = 0
    /\ calls = 0
    /\ last = NoCall
    /\ Idle

NextDir ==
    \/ Tick
    \/ Construct(1)
    \/ \E d \in DirInputs : LogTrade(1, d)
    \/ \E id \in KnownIds(1) \cup {NoSuchId}, u \in DirPatches : UpdateTrade(1, id, u)

SpecDir == InitDir /\ [][NextDir]_vars

\* C4: the journal is append-only: every record of trades.json stays in it,
\* with its trade_id, through later log_trade and update_trade calls, also
\* those of a TradeLogger constructed later on the directory, whatever
\* performance.json and stats.json hold.
C4_AppendOnly ==
    [][ /\ Len(DiskJournal') >= Len(DiskJournal)
        /\ \A i \in 1..Len(DiskJournal) :
             DiskJournal'[i]["trade_id"] = DiskJournal[i]["trade_id"] ]_vars

\* C10: a malformed record in the journal makes no log_trade or update_trade
\* fail.
C10_MalformedNotFatal ==
    IsHandlerCall(last) => last.result # "KeyError"

\* =====================================================================
\* src/ai-brain/decision_fusion.py.  Its functions keep no state: a run
\* draws the arguments of one call and the call returns.  A float is the
\* rational <<n, d>> it stands for (d > 0), so a confidence 0.7 is 7/10.

QAdd(a, b) == Frac(a[1] * b[2] + b[1] * a[2], a[2] * b[2])

QMul(a, b) == Frac(a[1] * b[1], a[2] * b[2])

\* a / b for b > 0
QDiv(a, b) == Frac(a[1] * b[2], a[2] * b[1])

QLt(a, b) == a[1] * b[2] < b[1] * a[2]

QLe(a, b) == a[1] * b[2] <= b[1] * a[2]

QMin(a, b) == IF QLt(b, a) THEN b ELSE a

QMax(a, b) == IF QLt(a, b) THEN b ELSE a

\* the integer nearest to n / d (n >= 0, d > 0), a tie going to the even one
RoundHalfEven(n, d) ==
    LET f == n \div d
        r == n % d
    IN  IF 2 * r < d THEN f
        ELSE IF 2 * r > d THEN f + 1
        ELSE IF f % 2 = 0 THEN f ELSE f + 1

\* round(x, 2)
Round2(q) == Frac(RoundHalfEven(100 * q[1], q[2]), 100)

\* the weights and the execution threshold of a risk profile
profile_weights(risk_profile) ==
    IF risk_profile = "conservative"
    THEN [ml |-> <<3, 10>>, indicator |-> <<5, 10>>, llm |-> <<2, 10>>]
    ELSE IF risk_profile = "aggressive"
    THEN [ml |-> <<5, 10>>, indicator |-> <<3, 10>>, llm |-> <<2, 10>>]
    ELSE [ml |-> <<4, 10>>, indicator |-> <<4, 10>>, llm |-> <<2, 10>>]

confidence_threshold(risk_profile) ==
    IF risk_profile = "conservative" THEN <<80, 100>>
    ELSE IF risk_profile = "aggressive" THEN <<65, 100>>
    ELSE <<75, 100>>

\* the weights when no llm_signal is given: weights["ml"] is replaced first,
\* and the new weights["ml"] is the one the second quotient divides by
normalized_weights(w) ==
    LET ml == QDiv(w.ml, QAdd(w.ml, w.indicator))
        indicator == QDiv(w.indicator, QAdd(ml, w.indicator))
    IN  [ml |-> ml, indicator |-> indicator, llm |-> Zero]

\* the keys of signal_scores, in the order the dict holds them
ScoreKeys == <<"BUY CALL", "WAIT", "BUY PUT">>

\* max(signal_scores, key=signal_scores.get): the first key of the largest score
RECURSIVE ArgMaxFrom(_, _, _)
ArgMaxFrom(scores, i, best) ==
    IF i > Len(ScoreKeys) THEN best
    ELSE ArgMaxFrom(scores, i + 1,
                    IF QLt(scores[best], scores[ScoreKeys[i]]) THEN ScoreKeys[i] ELSE best)

\* llm_signal None (or an empty dict, which `if llm_signal` treats alike)
NoLlm == EmptyDict

\* final_signal and final_confidence as fuse_signals has them before it
\* chooses the action: the largest weighted score, boosted when the sources agree
fused_confidence(ml_signal, indicator_signal, llm_signal, risk_profile) ==
    LET half == <<1, 2>>
        has_llm == llm_signal # NoLlm
        ml_decision == Get(ml_signal, "signal", "WAIT")
        ml_confidence == Get(ml_signal, "confidence", half)
        indicator_decision == Get(indicator_signal, "signal", "WAIT")
        indicator_confidence == Get(indicator_signal, "confidence", half)
        llm_decision == IF has_llm THEN Get(llm_signal, "decision", "WAIT") ELSE "WAIT"
        llm_confidence == IF has_llm THEN Get(llm_signal, "confidence", half) ELSE half
        weights == IF has_llm THEN profile_weights(risk_profile)
                   ELSE normalized_weights(profile_weights(risk_profile))
        keys == { ScoreKeys[i] : i \in 1..Len(ScoreKeys) }
        signal_scores ==
            [k \in keys |->
                QAdd(IF ml_decision = k THEN QMul(weights.ml, ml_confidence) ELSE Zero,
                QAdd(IF indicator_decision = k
                        THEN QMul(weights.indicator, indicator_confidence) ELSE Zero,
                     IF has_llm /\ llm_decision = k
                        THEN QMul(weights.llm, llm_confidence) ELSE Zero))]
        final_signal == ArgMaxFrom(signal_scores, 2, ScoreKeys[1])
        sources_agree ==
            IF has_llm
            THEN ml_decision = indicator_decision /\ indicator_decision = llm_decision
            ELSE ml_decision = indicator_decision
    IN  [final_signal |-> final_signal,
         final_confidence |->
            IF sources_agree
            THEN QMin(QAdd(signal_scores[final_signal], <<1, 10>>), <<98, 100>>)
            ELSE signal_scores[final_signal]]

fuse_signals(ml_signal, indicator_signal, llm_signal, risk_profile) ==
    LET half == <<1, 2>>
        has_llm == llm_signal # NoLlm
        ml_decision == Get(ml_signal, "signal", "WAIT")
        ml_confidence == Get(ml_signal, "confidence", half)
        indicator_decision == Get(indicator_signal, "signal", "WAIT")
        indicator_confidence == Get(indicator_signal, "confidence", half)
        llm_decision == IF has_llm THEN Get(llm_signal, "decision", "WAIT") ELSE "WAIT"
        llm_confidence == IF has_llm THEN Get(llm_signal, "confidence", half) ELSE half
        keys == { ScoreKeys[i] : i \in 1..Len(ScoreKeys) }
        f == fused_confidence(ml_signal, indicator_signal, llm_signal, risk_profile)
        final_signal == f.final_signal
        final_confidence == f.final_confidence
        action == IF final_signal = "WAIT" THEN "NO ACTION"
                  ELSE IF QLe(confidence_threshold(risk_profile), final_confidence)
                       THEN "EXECUTE TRADE" ELSE "SUGGEST TRADE"
        lots == IF QLt(<<9, 10>>, final_confidence) THEN 3
                ELSE IF QLt(<<8, 10>>, final_confidence) THEN 2 ELSE 1
    IN  IF ~({ml_decision, indicator_decision} \subseteq keys)
           \/ (has_llm /\ llm_decision \notin keys)
        THEN [raised |-> "KeyError"]
        ELSE [raised |-> "none",
              signal |-> final_signal,
              confidence |-> Round2(final_confidence),
              action |-> action,
              lots |-> lots,
              risk_profile |-> risk_profile,
              source_signals |-> [ml_signal |-> ml_decision,
                                  ml_confidence |-> ml_confidence,
                                  indicator_signal |-> indicator_decision,
                                  indicator_confidence |-> indicator_confidence,
                                  has_llm |-> has_llm,
                                  llm_signal |-> llm_decision,
                                  llm_confidence |-> llm_confidence]]

lot_sizes == [NIFTY |-> 50, BANKNIFTY |-> 25, FINNIFTY |-> 40, SENSEX |-> 10,
              MIDCPNIFTY |-> 75]

\* int(n / d): the quotient truncated towards zero
IntTrunc(q) == IF q[1] >= 0 THEN q[1] \div q[2] ELSE -((-q[1]) \div q[2])

Max2Int(a, b) == IF a >= b THEN a ELSE b

\* variant: the quotient taken the other way round
determine_lot_size_inverted(balance, risk_per_trade, entry, stop_loss, index) ==
    LET lot_size == Get(lot_sizes, index, 50)
        risk_amount == QMul(<<balance, 1>>, risk_per_trade)
        risk_per_lot == Abs(entry - stop_loss) * lot_size
    IN  IF risk_amount[1] = 0 THEN [raised |-> "ZeroDivisionError", lots |-> 0]
        ELSE [raised |-> "none",
              lots |-> Max2Int(1, IntTrunc(Frac(risk_per_lot * risk_amount[2],
                                                Abs(risk_amount[1]))))]

determine_lot_size(balance, risk_per_trade, entry, stop_loss, index) ==
    LET lot_size == Get(lot_sizes, index, 50)
        risk_amount == QMul(<<balance, 1>>, risk_per_trade)
        risk_per_point == Abs(entry - stop_loss)
        risk_per_lot == risk_per_point * lot_size
    IN  IF risk_per_lot = 0 THEN [raised |-> "ZeroDivisionError", lots |-> 0]
        ELSE [raised |-> "none",
              lots |-> Max2Int(1, IntTrunc(QDiv(risk_amount, <<risk_per_lot, 1>>)))]

choose_expiry_strategy(signal, days_to_expiry, risk_profile) ==
    IF days_to_expiry <= 1 THEN "next_weekly"
    ELSE IF risk_profile = "conservative"
    THEN (IF days_to_expiry < 3 THEN "next_weekly" ELSE "current_weekly")
    ELSE IF risk_profile = "aggressive"
    THEN (IF days_to_expiry < 1 THEN "next_weekly" ELSE "current_weekly")
    ELSE (IF days_to_expiry < 2 THEN "next_weekly" ELSE "current_weekly")

\* ------------------------------------------------- calls of decision_fusion
Profiles == {"conservative", "moderate", "aggressive"}

FusionSignals == {"BUY CALL", "BUY PUT", "WAIT"}

\* confidences of the sources, in hundredths
Confidences == {50, 70, 80, 82, 94}

SourceSignals ==
    { [signal |-> s, confidence |-> Frac(c, 100)] : s \in FusionSignals, c \in Confidences }

LlmSignals ==
    {NoLlm} \cup
    { [decision |-> s, confidence |-> Frac(c, 100)] : s \in FusionSignals, c \in Confidences }

\* The float sum of these arguments would fall on a value the code compares
\* it with (the threshold, the lot steps 0.8 and 0.9) or half way between two
\* hundredths, where the float's last bit decides and not the sum: such
\* arguments are left out, so that the rational is the float.
OnFloatBoundary(m, i, l, p) ==
    LET c == fused_confidence(m, i, l, p).final_confidence
    IN  \/ c \in {confidence_threshold(p), <<4, 5>>, <<9, 10>>}
        \/ 2 * ((100 * c[1]) % c[2]) = c[2]

FuseCalls ==
    { [fn |-> "fuse_signals", done |-> FALSE,
       arg |-> [ml_signal |-> m, indicator_signal |-> i, llm_signal |-> l,
                risk_profile |-> p]] :
      <<m, i, l, p>> \in { x \in SourceSignals \X SourceSignals \X LlmSignals \X Profiles :
                             ~OnFloatBoundary(x[1], x[2], x[3], x[4]) } }

BalanceStep == 2500

NotReturned == [raised |-> "pending", lots |-> 0]

LotCalls ==
    { [fn |-> "determine_lot_size", done |-> FALSE, doubled |-> FALSE,
       ret |-> NotReturned, prev |-> NotReturned,
       arg |-> [balance |-> b * BalanceStep, risk_per_trade |-> r, entry |-> 100,
                stop_loss |-> sl, index |-> ix]] :
      b \in 0..MaxBalance, r \in {<<0, 1>>, <<1, 100>>, <<1, 50>>},
      sl \in {97, 98, 100, 102}, ix \in {"NIFTY", "BANKNIFTY", "OTHER"} }

ExpiryCalls ==
    { [fn |-> "choose_expiry_strategy", done |-> FALSE,
       arg |-> [signal |-> s, days_to_expiry |-> d, risk_profile |-> p]] :
      s \in FusionSignals, d \in 0..MaxDays, p \in Profiles }

FuseSignals ==
    /\ call.fn = "fuse_signals" /\ ~call.done
    /\ call' = [fn |-> call.fn, done |-> TRUE, arg |-> call.arg,
                ret |-> fuse_signals(call.arg.ml_signal, call.arg.indicator_signal,
                                     call.arg.llm_signal, call.arg.risk_profile)]
    /\ UNCHANGED <<disk, inst, clock, calls, last, fetcher, analyzer, manager, output_dir>>

DetermineLotSize ==
    /\ call.fn = "determine_lot_size" /\ ~call.done
    /\ call' = [call EXCEPT !.done = TRUE,
                  !.ret = determine_lot_size(call.arg.balance, call.arg.risk_per_trade,
                                             call.arg.entry, call.arg.stop_loss,
                                             call.arg.index)]
    /\ UNCHANGED <<disk, inst, clock, calls, last, fetcher, analyzer, manager, output_dir>>

\* the caller asks again with twice the balance and everything else as before
DoubleBalance ==
    /\ call.fn = "determine_lot_size" /\ call.done /\ ~call.doubled
    /\ call' = [call EXCEPT !.done = FALSE, !.doubled = TRUE, !.prev = call.ret,
                  !.ret = NotReturned, !.arg.balance = 2 * call.arg.balance]
    /\ UNCHANGED <<disk, inst, clock, calls, last, fetcher, analyzer, manager, output_dir>>

ChooseExpiryStrategy ==
    /\ call.fn = "choose_expiry_strategy" /\ ~call.done
    /\ call' = [fn |-> call.fn, done |-> TRUE, arg |-> call.arg,
                ret |-> choose_expiry_strategy(call.arg.signal, call.arg.days_to_expiry,
                                               call.arg.risk_profile)]
    /\ UNCHANGED <<disk, inst, clock, calls, last, fetcher, analyzer, manager, output_dir>>

\* no TradeLogger is involved
NoJournal ==
    /\ disk = [f \in Files |-> Absent]
    /\ inst = [p \in Loggers |-> NotLive]
    /\ clock = 0
    /\ calls = 0
    /\ last = NoCall

InitFusion ==
    /\ NoJournal
    /\ NoManager
    /\ fetcher = NoFetcher
    /\ analyzer = NoAnalyzer
    /\ call \in FuseCalls \cup LotCalls \cup ExpiryCalls

NextFusion ==
    \/ FuseSignals
    \/ DetermineLotSize
    \/ DoubleBalance
    \/ ChooseExpiryStrategy

SpecFusion == InitFusion /\ [][NextFusion]_vars

Returned(fn) == call.fn = fn /\ call.done

\* C11: in every decision fuse_signals returns, action is NO ACTION exactly
\* when signal is WAIT, and otherwise action is EXECUTE TRADE exactly when the
\* decision's confidence is at least the threshold of the risk profile, and
\* SUGGEST TRADE when it is below.
C11_ActionMatchesConfidence ==
    Returned("fuse_signals") /\ call.ret.raised = "none" =>
        /\ call.ret.action = "NO ACTION" <=> call.ret.signal = "WAIT"
        /\ call.ret.signal # "WAIT" =>
             call.ret.action =
                IF QLe(confidence_threshold(call.arg.risk_profile), call.ret.confidence)
                THEN "EXECUTE TRADE" ELSE "SUGGEST TRADE"

\* C12: without the third source the two remaining weights are renormalised
\* to sum to 1 in their old proportion, (1/2, 1/2) under moderate, so
\* ml = {BUY CALL, 0.7} and indicator = {BUY CALL, 0.8} under moderate give
\* confidence 0.85, action EXECUTE TRADE and lots 2.
C12_TwoSourceScenario ==
    /\ Returned("fuse_signals")
    /\ call.arg.llm_signal = NoLlm
    /\ call.arg.risk_profile = "moderate"
    /\ call.arg.ml_signal = [signal |-> "BUY CALL", confidence |-> <<7, 10>>]
    /\ call.arg.indicator_signal = [signal |-> "BUY CALL", confidence |-> <<4, 5>>]
    => /\ call.ret.confidence = <<17, 20>>
       /\ call.ret.action = "EXECUTE TRADE"
       /\ call.ret.lots = 2

\* the sources that contribute to a call: ml, indicator, and llm when given
ContributingSignals(arg) ==
    {arg.ml_signal.signal, arg.indicator_signal.signal}
        \cup (IF arg.llm_signal = NoLlm THEN {} ELSE {arg.llm_signal.decision})

MaxComponentConfidence(arg) ==
    LET two == QMax(arg.ml_signal.confidence, arg.indicator_signal.confidence)
    IN  IF arg.llm_signal = NoLlm THEN two ELSE QMax(two, arg.llm_signal.confidence)

\* C13: when all the contributing sources of a fuse_signals call give the
\* same signal other than WAIT, the final confidence is at least
\* min(largest component confidence + 0.10, 0.98), under every risk profile.
C13_UnanimityBoost ==
    /\ Returned("fuse_signals")
    /\ call.ret.raised = "none"
    /\ ContributingSignals(call.arg) \in {{"BUY CALL"}, {"BUY PUT"}}
    => QLe(QMin(QAdd(MaxComponentConfidence(call.arg), <<1, 10>>), <<98, 100>>),
           call.ret.confidence)

\* C14: with risk_per_trade, entry, stop_loss and index held constant,
\* determine_lot_size of twice a balance >= 0 is at least determine_lot_size
\* of the balance.
C14_LotsMonotoneInBalance ==
    Returned("determine_lot_size") /\ call.doubled =>
        /\ call.ret.raised = call.prev.raised
        /\ call.ret.lots >= call.prev.lots

C14_Witness ==
    /\ Returned("determine_lot_size") /\ call.doubled
    /\ call.arg.balance > 0
    /\ call.ret.raised = "none"
    /\ call.ret.lots > call.prev.lots
    /\ call.prev.lots > 1

\* "within the last two days" of the current week
LastTwoDays(days_to_expiry) == days_to_expiry <= 2

LastDay(days_to_expiry) == days_to_expiry <= 1

\* C15: choose_expiry_strategy returns next_weekly exactly within the last two
\* days under moderate and under conservative, which therefore agree on every
\* days_to_expiry, and exactly within the last day under aggressive; in every
\* other case it returns current_weekly.
C15_ExpiryByProfile ==
    Returned("choose_expiry_strategy") =>
        LET a == call.arg
        IN  /\ call.ret \in {"next_weekly", "current_weekly"}
            /\ a.risk_profile = "aggressive" =>
                 (call.ret = "next_weekly" <=> LastDay(a.days_to_expiry))
            /\ a.risk_profile \in {"moderate", "conservative"} =>
                 /\ call.ret = "next_weekly" <=> LastTwoDays(a.days_to_expiry)
                 /\ choose_expiry_strategy(a.signal, a.days_to_expiry, "moderate")
                      = choose_expiry_strategy(a.signal, a.days_to_expiry, "conservative")

\* =====================================================================
\* The option chain: src/ai-brain/option_chain/fetcher.py and analyzer.py,
\* and the basic system of src/ai-brain/analyze_option_chain.py.
\* The fetcher holds the records of the last response (strikePrice and the
\* openInterest of CE and PE) and underlying_value; the analyzer stores the
\* pcr and the max_pain it computed.

StrikeStep == 100

RECURSIVE SumSeq(_)
SumSeq(s) == IF s = <<>> THEN 0 ELSE Head(s) + SumSeq(Tail(s))

\* df.sort_values('strike'): a stable sort
RECURSIVE InsertByStrike(_, _)
InsertByStrike(x, s) ==
    IF s = <<>> THEN <<x>>
    ELSE IF x.strike < Head(s).strike THEN <<x>> \o s
    ELSE <<Head(s)>> \o InsertByStrike(x, Tail(s))

RECURSIVE SortByStrike(_)
SortByStrike(s) ==
    IF s = <<>> THEN <<>>
    ELSE InsertByStrike(s[Len(s)], SortByStrike(SubSeq(s, 1, Len(s) - 1)))

\* the records with a strike, each with the underlying value, sorted by strike
prepare_dataframe(f) ==
    LET kept == SelectSeq(f.data, LAMBDA r : r.strike # 0)
    IN  SortByStrike([i \in 1..Len(kept) |->
                        [strike |-> kept[i].strike, ce_oi |-> kept[i].ce_oi,
                         pe_oi |-> kept[i].pe_oi,
                         ce_underlying |-> f.underlying_value]])

\* df['strike'].unique(): the strikes in the order of their first row
RECURSIVE UniqueStrikes(_, _)
UniqueStrikes(df, seen) ==
    IF df = <<>> THEN <<>>
    ELSE IF Head(df).strike \in seen THEN UniqueStrikes(Tail(df), seen)
    ELSE <<Head(df).strike>> \o UniqueStrikes(Tail(df), seen \cup {Head(df).strike})

\* the index of the first smallest element: idxmin(), and min() of a list
RECURSIVE FirstMinFrom(_, _, _)
FirstMinFrom(v, i, best) ==
    IF i > Len(v) THEN best
    ELSE FirstMinFrom(v, i + 1, IF v[i] < v[best] THEN i ELSE best)

\* the pain the analyzer adds up for a candidate strike
analyzer_pain(df, strike) ==
    Abs(SumSeq([i \in 1..Len(df) |->
            (IF df[i].strike < strike THEN df[i].ce_oi * (df[i].strike - strike) ELSE 0)
          + (IF df[i].strike > strike THEN df[i].pe_oi * (strike - df[i].strike) ELSE 0)]))

\* variant: the loss measured from the underlying value, as the comments
\* in the loop put it
calculate_max_pain_from_underlying(df) ==
    IF df = <<>> THEN 0
    ELSE LET strikes == UniqueStrikes(df, {})
             pain_values ==
                [k \in 1..Len(strikes) |->
                    Abs(SumSeq([i \in 1..Len(df) |->
                          df[i].ce_oi * Max2Int(0, df[i].ce_underlying - strikes[k])
                        + df[i].pe_oi * Max2Int(0, strikes[k] - df[i].ce_underlying)]))]
         IN  strikes[FirstMinFrom(pain_values, 2, 1)]

\* OptionChainAnalyzer.calculate_max_pain; 0 stands for None
calculate_max_pain(df) ==
    IF df = <<>> THEN 0
    ELSE LET strikes == UniqueStrikes(df, {})
             pain_values == [k \in 1..Len(strikes) |-> analyzer_pain(df, strikes[k])]
         IN  strikes[FirstMinFrom(pain_values, 2, 1)]

\* variant: the quotient cut off after two decimals
calculate_pcr_truncated(df) ==
    LET total_pe_oi == SumSeq([i \in 1..Len(df) |-> df[i].pe_oi])
        total_ce_oi == SumSeq([i \in 1..Len(df) |-> df[i].ce_oi])
    IN  IF total_ce_oi > 0 THEN Frac((100 * total_pe_oi) \div total_ce_oi, 100) ELSE Zero

\* OptionChainAnalyzer.calculate_pcr, and pcr_oi of calculate_basic_metrics
calculate_pcr(df) ==
    LET total_pe_oi == SumSeq([i \in 1..Len(df) |-> df[i].pe_oi])
        total_ce_oi == SumSeq([i \in 1..Len(df) |-> df[i].ce_oi])
    IN  IF total_ce_oi > 0 THEN Round2(Frac(total_pe_oi, total_ce_oi)) ELSE Zero

calculate_basic_metrics(df) ==
    LET total_ce_oi == SumSeq([i \in 1..Len(df) |-> df[i].ce_oi])
        total_pe_oi == SumSeq([i \in 1..Len(df) |-> df[i].pe_oi])
    IN  [total_ce_oi |-> total_ce_oi,
         total_pe_oi |-> total_pe_oi,
         total_oi |-> total_ce_oi + total_pe_oi,
         pcr_oi |-> calculate_pcr(df)]

\* the pain the basic system adds up for a candidate strike
basic_pain(option_data, strike) ==
    Abs(SumSeq([i \in 1..Len(option_data) |->
            (IF option_data[i].strike < strike
             THEN option_data[i].ce_oi * Max2Int(0, option_data[i].strike - strike) ELSE 0)
          + (IF option_data[i].strike > strike
             THEN option_data[i].pe_oi * Max2Int(0, strike - option_data[i].strike) ELSE 0)]))

\* _calculate_max_pain of analyze_option_chain.py (option_data not empty)
basic_calculate_max_pain(option_data, underlying_value) ==
    LET pain_values == [k \in 1..Len(option_data) |->
                           basic_pain(option_data, option_data[k].strike)]
    IN  option_data[FirstMinFrom(pain_values, 2, 1)].strike

\* ------------------------------------------------ runs on an option chain
\* open interest <<ce_oi, pe_oi>> at a strike, in lakh contracts
Legs == {<<0, 0>>, <<0, 1>>, <<3, 1>>, <<1, 3>>}

\* the records of a response: one per strike, ascending
ChainRecords ==
    {<<>>} \cup
    { [i \in 1..MaxStrikes |-> [strike |-> i * StrikeStep, ce_oi |-> oi[i][1],
                                pe_oi |-> oi[i][2]]] :
      oi \in [1..MaxStrikes -> Legs] }

UnderlyingValues == { k * (StrikeStep \div 2) : k \in 1..(2 * MaxStrikes + 1) }

Failed == [error |-> TRUE]

\* a later response in which only the underlying value differs
MoveUnderlying(d) ==
    /\ fetcher.underlying_value + d \in UnderlyingValues
    /\ fetcher' = [fetcher EXCEPT !.underlying_value = @ + d]
    /\ UNCHANGED <<disk, inst, clock, calls, last, call, analyzer, manager, output_dir>>

\* OptionChainAnalyzer.analyze_option_chain: basic metrics, max pain, pcr
AnalyzeOptionChain ==
    LET df == prepare_dataframe(fetcher)
        basic_metrics == calculate_basic_metrics(df)
        max_pain == calculate_max_pain(df)
        analyzed_before == call.fn = "analyze_option_chain" /\ ~call.ret.error
    IN  /\ call' = [fn |-> "analyze_option_chain", done |-> TRUE,
                    \* how far the underlying value is from the analysis before
                    moved |-> IF analyzed_before
                              THEN fetcher.underlying_value - call.ret.underlying_value
                              ELSE 0,
                    ret |-> IF df = <<>> THEN Failed
                            ELSE [error |-> FALSE,
                                  underlying_value |-> fetcher.underlying_value,
                                  pcr |-> basic_metrics.pcr_oi,
                                  max_pain |-> max_pain,
                                  basic_metrics |-> basic_metrics]]
        /\ analyzer' = IF df = <<>> THEN analyzer
                       ELSE [pcr |-> basic_metrics.pcr_oi, has_pcr |-> TRUE,
                             max_pain |-> max_pain, has_max_pain |-> TRUE]
        /\ UNCHANGED <<disk, inst, clock, calls, last, fetcher, manager, output_dir>>

CalculatePcr ==
    LET df == prepare_dataframe(fetcher)
    IN  /\ call' = [fn |-> "calculate_pcr", done |-> TRUE,
                    ret |-> IF df = <<>> THEN Failed
                            ELSE [error |-> FALSE, pcr |-> calculate_pcr(df)]]
        /\ analyzer' = IF df = <<>> THEN analyzer
                       ELSE [analyzer EXCEPT !.pcr = calculate_pcr(df), !.has_pcr = TRUE]
        /\ UNCHANGED <<disk, inst, clock, calls, last, fetcher, manager, output_dir>>

\* _fetch_with_basic_system on the same response: pcr and max pain of the
\* records as they come; an empty list makes min() raise, which is caught
FetchWithBasicSystem ==
    LET option_data == fetcher.data
        total_ce_oi == SumSeq([i \in 1..Len(option_data) |-> option_data[i].ce_oi])
        total_pe_oi == SumSeq([i \in 1..Len(option_data) |-> option_data[i].pe_oi])
    IN  /\ call' = [fn |-> "_fetch_with_basic_system", done |-> TRUE,
                    ret |-> IF option_data = <<>> THEN Failed
                            ELSE [error |-> FALSE,
                                  underlying |-> fetcher.underlying_value,
                                  pcr |-> IF total_ce_oi > 0
                                          THEN Round2(Frac(total_pe_oi, total_ce_oi))
                                          ELSE Zero,
                                  max_pain |-> basic_calculate_max_pain(
                                                  option_data, fetcher.underlying_value)]]
        /\ UNCHANGED <<disk, inst, clock, calls, last, fetcher, analyzer, manager, output_dir>>

InitChain ==
    /\ NoJournal
    /\ NoManager
    /\ call = NoPureCall
    /\ analyzer = NoAnalyzer
    /\ \E recs \in ChainRecords, u \in UnderlyingValues :
          fetcher = [data |-> recs, underlying_value |-> u]

NextChain ==
    \/ \E d \in {-StrikeStep, -(StrikeStep \div 2), StrikeStep \div 2, StrikeStep} :
          MoveUnderlying(d)
    \/ AnalyzeOptionChain
    \/ CalculatePcr
    \/ FetchWithBasicSystem

SpecChain == InitChain /\ [][NextChain]_vars

Strikes(data) == { data[i].strike : i \in 1..Len(data) }

\* pain(K) as the specification writes it
StatedPain(data, K) ==
    Abs(SumSeq([i \in 1..Len(data) |->
            (IF data[i].strike < K THEN data[i].ce_oi * Max2Int(0, data[i].strike - K) ELSE 0)
          + (IF data[i].strike > K THEN data[i].pe_oi * Max2Int(0, K - data[i].strike) ELSE 0)]))

\* the lowest of the strikes that minimise |pain(K)|
StatedMaxPain(data) ==
    CHOOSE K \in Strikes(data) :
        /\ \A J \in Strikes(data) : StatedPain(data, K) <= StatedPain(data, J)
        /\ \A J \in Strikes(data) : StatedPain(data, J) = StatedPain(data, K) => K <= J

\* C17: max_pain is the lowest strike K that minimises |pain(K)|, and the
\* analyzer and the basic system return this same strike for the same chain.
C17_MaxPainBothSystems ==
    /\ analyzer.has_max_pain
    /\ call.fn = "_fetch_with_basic_system"
    /\ ~call.ret.error
    => /\ call.ret.max_pain = analyzer.max_pain
       /\ analyzer.max_pain = StatedMaxPain(fetcher.data)

\* C18: the max_pain of a non-empty chain is one of its strikes, and an
\* analysis after the underlying value alone moved by at most one strike
\* step returns the max_pain of the analysis before.
C18_MaxPainIgnoresUnderlying ==
    [][ /\ call'.fn = "analyze_option_chain"
        /\ ~call'.ret.error
        => /\ call'.ret.max_pain \in Strikes(fetcher'.data)
           /\ ( /\ call.fn = "analyze_option_chain"
                /\ ~call.ret.error
                /\ Abs(call'.ret.underlying_value - call.ret.underlying_value) <= StrikeStep
                => call'.ret.max_pain = call.ret.max_pain ) ]_vars

C18_Witness ==
    /\ call.fn = "analyze_option_chain"
    /\ ~call.ret.error
    /\ call.moved # 0
    /\ Abs(call.moved) <= StrikeStep
    /\ call.ret.max_pain > fetcher.data[1].strike
    /\ call.ret.max_pain > fetcher.underlying_value

TotalCeOi == SumSeq([i \in 1..Len(fetcher.data) |-> fetcher.data[i].ce_oi])

TotalPeOi == SumSeq([i \in 1..Len(fetcher.data) |-> fetcher.data[i].pe_oi])

\* q is a number of hundredths, and no other is nearer to n / d
NearestHundredth(q, n, d) ==
    /\ 100 % q[2] = 0
    /\ 2 * Abs(q[1] * (100 \div q[2]) * d - 100 * n) <= d

\* the pcr a call returned: pcr_oi of the analysis, or calculate_pcr's value
ReturnedPcr ==
    IF call.fn = "analyze_option_chain" THEN call.ret.basic_metrics.pcr_oi ELSE call.ret.pcr

\* C19: pcr_oi of a well-formed chain is not negative, is the quotient
\* total_pe_oi / total_ce_oi rounded to two decimals when total_ce_oi > 0,
\* and is 0 when total_ce_oi is 0.
C19_PcrRounded ==
    call.fn \in {"analyze_option_chain", "calculate_pcr"} /\ ~call.ret.error =>
        /\ ReturnedPcr[1] >= 0
        /\ TotalCeOi > 0 => NearestHundredth(ReturnedPcr, TotalPeOi, TotalCeOi)
        /\ TotalCeOi = 0 => ReturnedPcr = Zero

C19_Witness ==
    /\ call.fn = "analyze_option_chain" /\ ~call.ret.error
    /\ TotalCeOi = 3
    /\ TotalPeOi = 2
    /\ call.ret.basic_metrics.pcr_oi = <<67, 100>>

\* =====================================================================
\* src/ai-brain/option_chain/signals.py and psychological_analysis.py:
\* functions of the analysis results (pcr, max_pain, underlying_value,
\* momentum, iv_skew, key_levels).

\* a micro-signal of get_intraday_signals
Micro(signal, hundredths, reason) ==
    [signal |-> signal, confidence |-> Frac(hundredths, 100), reason |-> reason]

RECURSIVE SumConfidence(_)
SumConfidence(s) ==
    IF s = <<>> THEN Zero ELSE QAdd(Head(s).confidence, SumConfidence(Tail(s)))

\* max(signals, key=confidence): the first of the largest confidence
RECURSIVE BestFrom(_, _, _)
BestFrom(s, i, best) ==
    IF i > Len(s) THEN s[best]
    ELSE BestFrom(s, i + 1, IF QLt(s[best].confidence, s[i].confidence) THEN i ELSE best)

\* variant: the bar a direction has to pass set to 0.6
determine_final_signal_low_bar(signals) ==
    LET call_signals == SelectSeq(signals, LAMBDA x : x.signal = "BUY CALL")
        put_signals == SelectSeq(signals, LAMBDA x : x.signal = "BUY PUT")
        call_confidence == QDiv(SumConfidence(call_signals), <<5, 1>>)
        put_confidence == QDiv(SumConfidence(put_signals), <<5, 1>>)
    IN  IF signals = <<>>
        THEN [signal |-> "WAIT", reason |-> "No clear signals detected", confidence |-> Zero]
        ELSE IF QLt(put_confidence, call_confidence) /\ QLt(<<60, 100>>, call_confidence)
        THEN [signal |-> "BUY CALL", reason |-> BestFrom(call_signals, 2, 1).reason,
              confidence |-> Round2(call_confidence)]
        ELSE IF QLt(call_confidence, put_confidence) /\ QLt(<<60, 100>>, put_confidence)
        THEN [signal |-> "BUY PUT", reason |-> BestFrom(put_signals, 2, 1).reason,
              confidence |-> Round2(put_confidence)]
        ELSE [signal |-> "WAIT", reason |-> "Conflicting signals or low confidence",
              confidence |-> Round2(QMax(call_confidence, put_confidence))]

\* SignalGenerator._determine_final_signal
determine_final_signal(signals) ==
    LET call_signals == SelectSeq(signals, LAMBDA x : x.signal = "BUY CALL")
        put_signals == SelectSeq(signals, LAMBDA x : x.signal = "BUY PUT")
        call_confidence == QDiv(SumConfidence(call_signals), <<5, 1>>)
        put_confidence == QDiv(SumConfidence(put_signals), <<5, 1>>)
    IN  IF signals = <<>>
        THEN [signal |-> "WAIT", reason |-> "No clear signals detected", confidence |-> Zero]
        ELSE IF QLt(put_confidence, call_confidence) /\ QLt(<<65, 100>>, call_confidence)
        THEN [signal |-> "BUY CALL", reason |-> BestFrom(call_signals, 2, 1).reason,
              confidence |-> Round2(call_confidence)]
        ELSE IF QLt(call_confidence, put_confidence) /\ QLt(<<65, 100>>, put_confidence)
        THEN [signal |-> "BUY PUT", reason |-> BestFrom(put_signals, 2, 1).reason,
              confidence |-> Round2(put_confidence)]
        ELSE [signal |-> "WAIT", reason |-> "Conflicting signals or low confidence",
              confidence |-> Round2(QMax(call_confidence, put_confidence))]

\* sum(x['delta_from_atm'] for x in legs) / len(legs), for a list that is not empty
AvgDelta(legs) == Frac(SumSeq(legs), Len(legs))

\* (max_pain - underlying_value) / underlying_value * 100
MaxPainPercent(r) == Frac((r.max_pain - r.underlying_value) * 100, r.underlying_value)

\* 1.5 * x
Times15(q) == QMul(<<3, 2>>, q)

\* the micro-signals of get_intraday_signals, rule by rule, in the order of the code
intraday_micro_signals(r) ==
    LET pcr == r.pcr
        key_levels == r.key_levels
        ce == key_levels.significant_ce_change
        pe == key_levels.significant_pe_change
        s1 == IF QLt(<<3, 2>>, pcr) THEN <<Micro("BUY CALL", 70, "high pcr")>>
              ELSE IF QLt(pcr, <<1, 2>>) THEN <<Micro("BUY PUT", 70, "low pcr")>>
              ELSE <<>>
        s2 == IF ce # <<>> /\ ce[1].strike # 0 /\ ce[1].strike > r.underlying_value
                 /\ ce[1].ce_change_oi > 100000
              THEN <<Micro("BUY PUT", 65, "call writing")>> ELSE <<>>
        s2b == IF pe # <<>> /\ pe[1].strike # 0 /\ pe[1].strike < r.underlying_value
                  /\ pe[1].pe_change_oi > 100000
               THEN <<Micro("BUY CALL", 65, "put writing")>> ELSE <<>>
        s3 == IF r.max_pain # 0 /\ r.underlying_value # 0
              THEN (IF QLt(<<1, 1>>, MaxPainPercent(r))
                    THEN <<Micro("BUY CALL", 60, "below max pain")>>
                    ELSE IF QLt(MaxPainPercent(r), <<-1, 1>>)
                    THEN <<Micro("BUY PUT", 60, "above max pain")>>
                    ELSE <<>>)
              ELSE <<>>
        otm_puts == r.iv_skew.otm_puts
        otm_calls == r.iv_skew.otm_calls
        s4 == IF otm_puts # <<>> /\ otm_calls # <<>>
              THEN (IF QLt(<<5, 1>>, AvgDelta(otm_puts))
                       /\ QLt(Times15(AvgDelta(otm_calls)), AvgDelta(otm_puts))
                    THEN <<Micro("BUY CALL", 55, "put iv skew")>>
                    ELSE IF QLt(<<5, 1>>, AvgDelta(otm_calls))
                            /\ QLt(Times15(AvgDelta(otm_puts)), AvgDelta(otm_calls))
                    THEN <<Micro("BUY PUT", 55, "call iv skew")>>
                    ELSE <<>>)
              ELSE <<>>
        ce_oi_change == r.momentum.ce_oi_change
        pe_oi_change == r.momentum.pe_oi_change
        s5 == IF ce_oi_change > 500000 /\ ce_oi_change > pe_oi_change * 2
              THEN <<Micro("BUY PUT", 60, "heavy call writing")>> ELSE <<>>
        s5b == IF pe_oi_change > 500000 /\ pe_oi_change > ce_oi_change * 2
               THEN <<Micro("BUY CALL", 60, "heavy put writing")>> ELSE <<>>
    IN  s1 \o s2 \o s2b \o s3 \o s4 \o s5 \o s5b

\* SignalGenerator.get_intraday_signals on analysis results without an error
get_intraday_signals(r) ==
    LET signals == intraday_micro_signals(r)
    IN  [underlying_value |-> r.underlying_value,
         pcr |-> r.pcr,
         max_pain |-> r.max_pain,
         signals |-> signals,
         final_signal |-> determine_final_signal(signals)]

\* MarketPsychologyAnalyzer.get_fear_greed_index on analysis results
get_fear_greed_index(r) ==
    LET pcr == r.pcr
        f1 == IF pcr[1] = 0 THEN 0
              ELSE IF QLt(<<3, 2>>, pcr) THEN -20
              ELSE IF QLt(<<6, 5>>, pcr) THEN -10
              ELSE IF QLt(pcr, <<1, 2>>) THEN 20
              ELSE IF QLt(pcr, <<4, 5>>) THEN 10
              ELSE 0
        oi_momentum == r.momentum.oi_momentum
        f2 == IF oi_momentum = "Bullish" THEN 10
              ELSE IF oi_momentum = "Bearish" THEN -10 ELSE 0
        f3 == IF r.max_pain # 0 /\ r.underlying_value # 0
              THEN (IF QLt(<<1, 1>>, MaxPainPercent(r)) THEN 5
                    ELSE IF QLt(MaxPainPercent(r), <<-1, 1>>) THEN -5 ELSE 0)
              ELSE 0
        otm_puts == r.iv_skew.otm_puts
        otm_calls == r.iv_skew.otm_calls
        f4 == IF otm_puts # <<>> /\ otm_calls # <<>>
                 /\ AvgDelta(otm_puts)[1] # 0 /\ AvgDelta(otm_calls)[1] # 0
              THEN (IF QLt(Times15(AvgDelta(otm_calls)), AvgDelta(otm_puts)) THEN -10
                    ELSE IF QLt(Times15(AvgDelta(otm_puts)), AvgDelta(otm_calls)) THEN 10
                    ELSE 0)
              ELSE 0
        sum == 50 + f1 + f2 + f3 + f4
        fear_greed_score == Max2Int(0, IF sum > 100 THEN 100 ELSE sum)
    IN  [score |-> fear_greed_score,
         interpretation |->
            IF fear_greed_score >= 75 THEN "Extreme Greed"
            ELSE IF fear_greed_score >= 60 THEN "Greed"
            ELSE IF fear_greed_score >= 45 THEN "Neutral to Bullish"
            ELSE IF fear_greed_score >= 30 THEN "Neutral to Bearish"
            ELSE IF fear_greed_score >= 15 THEN "Fear"
            ELSE "Extreme Fear"]

\* --------------------------------------------- calls on analysis results
\* calculate_momentum_indicators: the label of the total changes in open interest
Momentum(ce_oi_change, pe_oi_change) ==
    [ce_oi_change |-> ce_oi_change, pe_oi_change |-> pe_oi_change,
     oi_momentum |-> IF pe_oi_change > ce_oi_change THEN "Bullish" ELSE "Bearish"]

\* the deltas from the ATM implied volatility of the OTM puts and OTM calls
IvSkew(otm_puts, otm_calls) == [otm_puts |-> otm_puts, otm_calls |-> otm_calls]

AnalysisResults ==
    { [pcr |-> pcr, underlying_value |-> 20000, max_pain |-> mp, momentum |-> mo,
       iv_skew |-> iv,
       key_levels |-> [significant_ce_change |-> ce, significant_pe_change |-> pe]] :
      pcr \in {<<2, 5>>, <<7, 10>>, <<1, 1>>, <<13, 10>>, <<8, 5>>},
      mp \in {19000, 20000, 21000},
      mo \in {Momentum(600000, 100000), Momentum(100000, 600000), Momentum(100000, 50000)},
      iv \in {IvSkew(<<7, 9>>, <<3>>), IvSkew(<<3>>, <<8>>), IvSkew(<<4>>, <<4>>),
              IvSkew(<<>>, <<>>)},
      ce \in {<<>>, <<[strike |-> 20500, ce_change_oi |-> 150000]>>},
      pe \in {<<>>, <<[strike |-> 19500, pe_change_oi |-> 150000]>>} }

\* the micro-signals a list handed to _determine_final_signal is made of
MicroChoices ==
    { Micro(sg, c, "given") : sg \in {"BUY CALL", "BUY PUT"}, c \in {60, 70, 90} }

MicroLists == UNION { [1..n -> MicroChoices] : n \in 0..MaxSignals }

SignalCalls ==
    { [fn |-> "get_intraday_signals", done |-> FALSE, arg |-> r] : r \in AnalysisResults }
    \cup { [fn |-> "get_fear_greed_index", done |-> FALSE, arg |-> r] : r \in AnalysisResults }
    \cup { [fn |-> "_determine_final_signal", done |-> FALSE, arg |-> l] : l \in MicroLists }

GetIntradaySignals ==
    /\ call.fn = "get_intraday_signals" /\ ~call.done
    /\ call' = [fn |-> call.fn, done |-> TRUE, arg |-> call.arg,
                ret |-> get_intraday_signals(call.arg)]
    /\ UNCHANGED <<disk, inst, clock, calls, last, fetcher, analyzer, manager, output_dir>>

DetermineFinalSignal ==
    /\ call.fn = "_determine_final_signal" /\ ~call.done
    /\ call' = [fn |-> call.fn, done |-> TRUE, arg |-> call.arg,
                ret |-> determine_final_signal(call.arg)]
    /\ UNCHANGED <<disk, inst, clock, calls, last, fetcher, analyzer, manager, output_dir>>

GetFearGreedIndex ==
    /\ call.fn = "get_fear_greed_index" /\ ~call.done
    /\ call' = [fn |-> call.fn, done |-> TRUE, arg |-> call.arg,
                ret |-> get_fear_greed_index(call.arg)]
    /\ UNCHANGED <<disk, inst, clock, calls, last, fetcher, analyzer, manager, output_dir>>

InitSignals ==
    /\ NoJournal
    /\ NoManager
    /\ fetcher = NoFetcher
    /\ analyzer = NoAnalyzer
    /\ call \in SignalCalls

NextSignals ==
    \/ GetIntradaySignals
    \/ DetermineFinalSignal
    \/ GetFearGreedIndex

SpecSignals == InitSignals /\ [][NextSignals]_vars

\* the sum of the confidences of the micro-signals of one direction, over 5
SideConfidence(signals, side) ==
    QDiv(SumConfidence(SelectSeq(signals, LAMBDA x : x.signal = side)), <<5, 1>>)

FinalSignalIs(signals, final) ==
    LET c == SideConfidence(signals, "BUY CALL")
        p == SideConfidence(signals, "BUY PUT")
    IN  /\ final.signal \in {"BUY CALL", "BUY PUT", "WAIT"}
        /\ final.signal = "BUY CALL" <=> (QLt(p, c) /\ QLt(<<65, 100>>, c))
        /\ final.signal = "BUY PUT" <=> (QLt(c, p) /\ QLt(<<65, 100>>, p))

\* C16: the final signal of the signal generator is BUY CALL (BUY PUT) exactly
\* when the BUY CALL (BUY PUT) micro-signal confidences, summed and divided by
\* 5, are larger than those of the other side and larger than 0.65; in every
\* other case it is WAIT.
C16_FinalSignalRule ==
    /\ Returned("get_intraday_signals") =>
          FinalSignalIs(call.ret.signals, call.ret.final_signal)
    /\ Returned("_determine_final_signal") => FinalSignalIs(call.arg, call.ret)

C16_Witness ==
    /\ Returned("_determine_final_signal")
    /\ call.ret.signal = "BUY PUT"
    /\ \E i \in 1..Len(call.arg) : call.arg[i].signal = "BUY CALL"

\* C20: pcr 1.6, OI momentum Bearish, max pain 5% above the underlying value,
\* average OTM-put IV delta 8 and average OTM-call IV delta 3 give the
\* fear-greed score 15 with the label Extreme Fear.
C20_FearGreedScenario ==
    /\ Returned("get_fear_greed_index")
    /\ call.arg.pcr = <<8, 5>>
    /\ call.arg.momentum.oi_momentum = "Bearish"
    /\ MaxPainPercent(call.arg) = <<5, 1>>
    /\ call.arg.iv_skew.otm_puts # <<>> /\ AvgDelta(call.arg.iv_skew.otm_puts) = <<8, 1>>
    /\ call.arg.iv_skew.otm_calls # <<>> /\ AvgDelta(call.arg.iv_skew.otm_calls) = <<3, 1>>
    => /\ call.ret.score = 15
       /\ call.ret.interpretation = "Extreme Fear"

\* =====================================================================
\* src/ai-brain/option_chain/fetcher.py: fetch_option_chain, one action per
\* turn of its retry loop.  call.outcomes lists what each request to the
\* chain endpoint came to.

\* the test of the while loop
MayRetryInclusive(retry_count, max_retries) == retry_count <= max_retries

MayRetry(retry_count, max_retries) == retry_count < max_retries

\* the ways an attempt fails: status_code != 200, RequestException, JSONDecodeError
FailureKinds == {"status", "exception", "json"}

\* the decoded responses: records per strike and the underlying value
Responses ==
    { [data |-> recs, underlying_value |-> 150] :
      recs \in { <<>>, [i \in 1..2 |-> [strike |-> i * StrikeStep, ce_oi |-> 3, pe_oi |-> 1]] } }

FetchCalls ==
    { [fn |-> "fetch_option_chain", done |-> FALSE, expiry |-> e, max_retries |-> m,
       retry_count |-> 0, outcomes |-> <<>>, ret |-> FALSE] :
      e \in {"none", "26-Dec-2024"}, m \in 0..MaxRetries }

InFetch == call.fn = "fetch_option_chain" /\ ~call.done

\* a turn of the loop whose request fails: retry_count += 1
FetchAttemptFails(kind) ==
    /\ InFetch
    /\ MayRetry(call.retry_count, call.max_retries)
    /\ call' = [call EXCEPT !.retry_count = @ + 1, !.outcomes = Append(@, kind)]
    /\ UNCHANGED <<disk, inst, clock, calls, last, fetcher, analyzer, manager, output_dir>>

\* a turn of the loop whose request succeeds: the data is kept, True is returned
FetchAttemptSucceeds(response) ==
    /\ InFetch
    /\ MayRetry(call.retry_count, call.max_retries)
    /\ fetcher' = response
    /\ call' = [call EXCEPT !.outcomes = Append(@, "ok"), !.done = TRUE, !.ret = TRUE]
    /\ UNCHANGED <<disk, inst, clock, calls, last, analyzer, manager, output_dir>>

\* the loop is left with all retries used: False is returned
FetchExhausted ==
    /\ InFetch
    /\ ~MayRetry(call.retry_count, call.max_retries)
    /\ call' = [call EXCEPT !.done = TRUE, !.ret = FALSE]
    /\ UNCHANGED <<disk, inst, clock, calls, last, fetcher, analyzer, manager, output_dir>>

InitFetch ==
    /\ NoJournal
    /\ NoManager
    /\ fetcher = NoFetcher
    /\ analyzer = NoAnalyzer
    /\ call \in FetchCalls

NextFetch ==
    \/ \E kind \in FailureKinds : FetchAttemptFails(kind)
    \/ \E response \in Responses : FetchAttemptSucceeds(response)
    \/ FetchExhausted

\* the loop is sequential code whose sleeps and requests (timeout=15) end
SpecFetch == InitFetch /\ [][NextFetch]_vars /\ WF_vars(NextFetch)

EveryAttemptFailed ==
    \A i \in 1..Len(call.outcomes) : call.outcomes[i] \in FailureKinds

\* C21: fetch_option_chain terminates; while every attempt fails it has
\* issued at most max_retries requests, and when it returns after only failed
\* attempts it returns False.
C21_FetchTerminates ==
    /\ [](EveryAttemptFailed => Len(call.outcomes) <= call.max_retries)
    /\ [](call.done /\ EveryAttemptFailed => call.ret = FALSE)
    /\ <>(call.done)

C21_Witness ==
    /\ Returned("fetch_option_chain")
    /\ call.max_retries = 3
    /\ call.outcomes = <<"status", "exception", "json">>
    /\ call.ret = FALSE

\* =====================================================================
\* src/ai-brain/option_chain/main.py: OptionChainManager.  A fetcher is its
\* index and the response it holds (data 0 is None, n > 0 the manager's n-th
\* successful fetch); an analysis is named by the index and the response it
\* was computed from.  self.history, only read by save_history and
\* get_pcr_history, is left out.

Managers == {1, 2}

Indexes == {"NIFTY", "BANKNIFTY"}

\* OptionChainFetcher(index): no data yet
NewFetcher(index) == [index |-> index, data |-> 0]

\* self.analysis_results = None
NoAnalysis == [none |-> TRUE, index |-> "", data |-> 0]

\* analyzer.analyze_option_chain(df) on the data the fetcher holds
AnalysisOf(f) == [none |-> FALSE, index |-> f.index, data |-> f.data]

\* analyze(): without data it returns an error and stores nothing
analyze(M) ==
    IF M.fetcher.data = 0 THEN M
    ELSE [M EXCEPT !.analysis_results = AnalysisOf(M.fetcher)]

\* generate_report / run_psychological_analysis: `if not self.analysis_results:
\* self.analyze()`, then the stored analysis is used
analysis_for_report(M) ==
    IF M.analysis_results.none THEN analyze(M).analysis_results ELSE M.analysis_results

\* f"{index}_report_{now:%Y%m%d_%H%M%S}.json"
report_filename(m, index, now) == <<index, "report", now>>

SetIndex(m, index) ==
    /\ manager' = [manager EXCEPT ![m].fetcher = NewFetcher(index)]
    /\ call' = [fn |-> "set_index", done |-> TRUE, m |-> m]
    /\ UNCHANGED <<disk, inst, clock, calls, last, fetcher, analyzer, output_dir>>

\* fetch_data: fetch_option_chain returns True with a new response, or False
FetchData(m, ok) ==
    /\ ok => manager[m].fetches < MaxFetches
    /\ manager' = IF ok
                  THEN [manager EXCEPT ![m].fetches = @ + 1,
                                       ![m].fetcher.data = manager[m].fetches + 1]
                  ELSE manager
    /\ call' = [fn |-> "fetch_data", done |-> TRUE, m |-> m, ret |-> ok]
    /\ UNCHANGED <<disk, inst, clock, calls, last, fetcher, analyzer, output_dir>>

Analyze(m) ==
    /\ manager' = [manager EXCEPT ![m] = analyze(@)]
    /\ call' = [fn |-> "analyze", done |-> TRUE, m |-> m,
                error |-> manager[m].fetcher.data = 0]
    /\ UNCHANGED <<disk, inst, clock, calls, last, fetcher, analyzer, output_dir>>

RunPsychologicalAnalysis(m) ==
    LET analysis == analysis_for_report(manager[m])
    IN  /\ manager' = [manager EXCEPT ![m].analysis_results = analysis]
        /\ call' = [fn |-> "run_psychological_analysis", done |-> TRUE, m |-> m,
                    error |-> analysis.none, raised |-> FALSE, analysis |-> analysis]
        /\ UNCHANGED <<disk, inst, clock, calls, last, fetcher, analyzer, output_dir>>

\* generate_report: with no analysis and no data, None.get raises
\* AttributeError (line 170); otherwise the report is written under its name
GenerateReport(m) ==
    LET analysis == analysis_for_report(manager[m])
        name == report_filename(m, manager[m].fetcher.index, clock)
        report == [index |-> manager[m].fetcher.index, analysis |-> analysis,
                   psychology |-> analysis]
    IN  /\ manager' = [manager EXCEPT ![m].analysis_results = analysis]
        /\ call' = [fn |-> "generate_report", done |-> TRUE, m |-> m,
                    error |-> analysis.none, raised |-> analysis.none,
                    analysis |-> analysis, report_file |-> name]
        /\ output_dir' = IF analysis.none THEN output_dir
                         ELSE (name :> report) @@ output_dir
        /\ UNCHANGED <<disk, inst, clock, calls, last, fetcher, analyzer>>

InitManager ==
    /\ NoJournal
    /\ fetcher = NoFetcher
    /\ analyzer = NoAnalyzer
    /\ call = NoPureCall
    /\ manager = [m \in Managers |->
                    [fetcher |-> NewFetcher("NIFTY"), analysis_results |-> NoAnalysis,
                     fetches |-> 0]]
    /\ output_dir = EmptyDict

NextManager ==
    \/ \E m \in Managers, index \in Indexes : SetIndex(m, index)
    \/ \E m \in Managers, ok \in BOOLEAN : FetchData(m, ok)
    \/ \E m \in Managers : Analyze(m)
    \/ \E m \in Managers : RunPsychologicalAnalysis(m)
    \/ \E m \in Managers : GenerateReport(m)
    \/ Tick

SpecManager == InitManager /\ [][NextManager]_vars

\* a report or a psychology result has just been built
Built(c) ==
    /\ c.fn \in {"generate_report", "run_psychological_analysis"}
    /\ c.done /\ ~c.error

\* C22: a report generation never writes to a file an earlier report
\* generation wrote, also when both are for the same index in the same second.
C22_ReportNamesUnique ==
    [][\A m \in Managers :
          GenerateReport(m) /\ ~call'.error
             => call'.report_file \notin DOMAIN output_dir]_vars

\* C28: a report or a psychology result is built from the analysis of the
\* data the manager's current fetcher holds: the current index's most
\* recently fetched data.
C28_AnalysisIsCurrent ==
    Built(call) => call.analysis = AnalysisOf(manager[call.m].fetcher)

\* =====================================================================
\* src/ai-brain/order_executor.py: place_order (the definition of line 247).
\* token is what get_access_token returns and response what the broker
\* answers to requests.post, were they called; the result lists, next to the
\* returned dict, the token lookups and the requests sent to the broker.

LOT_SIZE == [NIFTY |-> 50, BANKNIFTY |-> 25, FINNIFTY |-> 40, SENSEX |-> 10,
             MIDCPNIFTY |-> 75]

DEFAULT_LOT_SIZE == 50

\* get_symbol: NSE:<INDEX><expiry><strike><CE|PE>; without an expiry the
\* nearest of get_expiry_dates
get_symbol(index, strike, option_type, expiry) ==
    <<"NSE", index, IF expiry = "None" THEN "nearest" ELSE expiry, strike, option_type>>

ValidDirections == {"BUY CALL", "BUY PUT", "SELL CALL", "SELL PUT"}

order_payload(a) ==
    LET side == IF a.direction \in {"BUY CALL", "BUY PUT"} THEN "BUY" ELSE "SELL"
        option_type == IF a.direction \in {"BUY CALL", "SELL CALL"} THEN "CE" ELSE "PE"
        lot_size == Get(LOT_SIZE, a.index, DEFAULT_LOT_SIZE)
        payload == [symbol |-> get_symbol(a.index, a.strike, option_type, a.expiry),
                    qty |-> a.lots * lot_size,
                    type |-> IF a.order_type = "MARKET" THEN 2 ELSE 1,
                    side |-> IF side = "BUY" THEN 1 ELSE -1,
                    productType |-> "INTRADAY", validity |-> "DAY",
                    disclosedQty |-> 0, offlineOrder |-> FALSE]
    IN  IF a.order_type = "LIMIT" /\ a.price > 0
        THEN DictUpdate(payload, [limitPrice |-> a.price]) ELSE payload

\* the request to the broker, whatever it answers
send_order(a, token, response, now) ==
    IF token = ""
    THEN [ret |-> [error |-> "Failed to get access token"],
          token_lookups |-> 1, posts |-> <<>>]
    ELSE [ret |-> IF response = "200" THEN [s |-> "ok", orderNumber |-> <<"broker", now>>]
                  ELSE [error |-> response],
          token_lookups |-> 1, posts |-> <<order_payload(a)>>]

\* variant: the access token is looked up before ENABLE_REAL_TRADING is read
place_order_token_first(a, ENABLE_REAL_TRADING, token, response, now) ==
    IF a.direction \notin ValidDirections
    THEN [ret |-> [error |-> "Invalid direction"], token_lookups |-> 0, posts |-> <<>>]
    ELSE IF ENABLE_REAL_TRADING
    THEN send_order(a, token, response, now)
    ELSE [ret |-> [s |-> "ok", orderNumber |-> <<"mockorder", now>>,
                   message |-> "Order placed successfully (MOCK)"],
          token_lookups |-> 1, posts |-> <<>>]

place_order(a, ENABLE_REAL_TRADING, token, response, now) ==
    IF a.direction \notin ValidDirections
    THEN [ret |-> [error |-> "Invalid direction"], token_lookups |-> 0, posts |-> <<>>]
    ELSE IF ~ENABLE_REAL_TRADING
    THEN [ret |-> [s |-> "ok", orderNumber |-> <<"mockorder", now>>,
                   message |-> "Order placed successfully (MOCK)"],
          token_lookups |-> 0, posts |-> <<>>]
    ELSE send_order(a, token, response, now)

OrderCalls ==
    { [fn |-> "place_order", done |-> FALSE, ENABLE_REAL_TRADING |-> real,
       arg |-> [index |-> i, strike |-> 22500, direction |-> d, lots |-> l,
                expiry |-> e, order_type |-> t, price |-> pr]] :
      real \in BOOLEAN, i \in {"NIFTY", "BANKNIFTY", "OTHER"},
      d \in ValidDirections \cup {"WAIT"}, l \in {1, 2}, e \in {"None", "241226"},
      t \in {"MARKET", "LIMIT"}, pr \in {0, 120} }

\* what the token file and the broker would answer
Tokens == {"", "mock_fyers_token"}

BrokerResponses == {"200", "400", "exception"}

PlaceOrder(token, response) ==
    /\ call.fn = "place_order" /\ ~call.done
    /\ call' = [fn |-> call.fn, done |-> TRUE, arg |-> call.arg,
                ENABLE_REAL_TRADING |-> call.ENABLE_REAL_TRADING,
                out |-> place_order(call.arg, call.ENABLE_REAL_TRADING, token, response,
                                    clock)]
    /\ UNCHANGED <<disk, inst, clock, calls, last, fetcher, analyzer, manager, output_dir>>

InitOrder ==
    /\ NoJournal
    /\ NoManager
    /\ fetcher = NoFetcher
    /\ analyzer = NoAnalyzer
    /\ call \in OrderCalls

NextOrder == \E token \in Tokens, response \in BrokerResponses : PlaceOrder(token, response)

SpecOrder == InitOrder /\ [][NextOrder]_vars

\* C23: with ENABLE_REAL_TRADING false, place_order with a valid direction
\* returns an acknowledgement that carries an orderNumber, and neither looks
\* up a token nor sends a request to the broker.
C23_PaperModeSendsNothing ==
    Returned("place_order") /\ ~call.ENABLE_REAL_TRADING
       /\ call.arg.direction \in ValidDirections
    => /\ Has(call.out.ret, "orderNumber")
       /\ ~Has(call.out.ret, "error")
       /\ call.out.token_lookups = 0
       /\ call.out.posts = <<>>

C23_Witness ==
    /\ Returned("place_order") /\ ~call.ENABLE_REAL_TRADING
    /\ call.arg.direction = "SELL PUT" /\ call.arg.order_type = "LIMIT"
    /\ call.out.ret.orderNumber = <<"mockorder", clock>>

\* =====================================================================
\* src/ai-brain/patterns/basic_patterns.py and complex_patterns.py: the
\* candlestick predicates.  A candle is [open, high, low, close] in whole
\* price units; a comparison with a ratio is made on the cross-multiplied
\* integers (body / range_ < 0.1 is 10 * body < range_ for range_ > 0).

Min2(a, b) == IF a <= b THEN a ELSE b

body_of(c) == Abs(c.close - c.open)

range_of(c) == c.high - c.low

upper_shadow(c) == c.high - Max2(c.open, c.close)

lower_shadow(c) == Min2(c.open, c.close) - c.low

is_bullish_engulfing(c1, c2) ==
    <<c1.close < c1.open /\ c2.open < c1.close /\ c2.close > c1.open /\ c2.close > c2.open>>

is_bearish_engulfing(c1, c2) ==
    <<c1.close > c1.open /\ c2.open > c1.close /\ c2.close < c1.open /\ c2.close < c2.open>>

\* threshold = 0.1
is_doji(candle) ==
    <<range_of(candle) > 0 /\ 10 * body_of(candle) < range_of(candle)>>

\* shadow_multiplier = 2
is_hammer(candle) ==
    <<body_of(candle) # 0 /\ lower_shadow(candle) > 2 * body_of(candle)
        /\ upper_shadow(candle) < body_of(candle)>>

is_shooting_star(candle) ==
    <<body_of(candle) # 0 /\ upper_shadow(candle) > 2 * body_of(candle)
        /\ lower_shadow(candle) < body_of(candle)>>

\* threshold = 0.1; the result is (is_marubozu, direction)
is_marubozu(candle) ==
    IF body_of(candle) = 0 THEN <<FALSE, 0>>
    ELSE <<10 * upper_shadow(candle) <= body_of(candle)
             /\ 10 * lower_shadow(candle) <= body_of(candle),
           IF candle.close > candle.open THEN 1 ELSE -1>>

is_bullish_harami(c1, c2) ==
    <<c1.close < c1.open /\ c2.close > c2.open /\ c2.open > c1.close
        /\ c2.close < c1.open /\ body_of(c2) < body_of(c1)>>

is_bearish_harami(c1, c2) ==
    <<c1.close > c1.open /\ c2.close < c2.open /\ c2.open < c1.close
        /\ c2.close > c1.open /\ body_of(c2) < body_of(c1)>>

\* threshold = 0.1, leg_multiplier = 3
is_long_legged_doji(candle) ==
    <<body_of(candle) # 0 /\ range_of(candle) # 0
        /\ 10 * body_of(candle) < range_of(candle)
        /\ upper_shadow(candle) > body_of(candle) * 3
        /\ lower_shadow(candle) > body_of(candle) * 3>>

\* threshold = 0.1, shadow_multiplier = 5
is_dragonfly_doji(candle) ==
    <<body_of(candle) # 0 /\ range_of(candle) # 0
        /\ 10 * body_of(candle) < range_of(candle)
        /\ upper_shadow(candle) < body_of(candle)
        /\ lower_shadow(candle) > body_of(candle) * 5>>

is_gravestone_doji(candle) ==
    <<body_of(candle) # 0 /\ range_of(candle) # 0
        /\ 10 * body_of(candle) < range_of(candle)
        /\ lower_shadow(candle) < body_of(candle)
        /\ upper_shadow(candle) > body_of(candle) * 5>>

\* body_threshold = 0.3
is_morning_star(c1, c2, c3) ==
    <<body_of(c1) # 0 /\ body_of(c3) # 0
        /\ c1.close < c1.open
        /\ 10 * body_of(c2) < body_of(c1) * 3
        /\ c3.close > c3.open
        /\ 2 * c3.close > c1.open + c1.close>>

is_evening_star(c1, c2, c3) ==
    <<body_of(c1) # 0 /\ body_of(c3) # 0
        /\ c1.close > c1.open
        /\ 10 * body_of(c2) < body_of(c1) * 3
        /\ c3.close < c3.open
        /\ 2 * c3.close < c1.open + c1.close>>

\* wick_threshold = 0.3
is_three_white_soldiers(c1, c2, c3) ==
    <<c1.close - c1.open > 0 /\ c2.close - c2.open > 0 /\ c3.close - c3.open > 0
        /\ c2.open > c1.open /\ c3.open > c2.open
        /\ c2.close > c1.close /\ c3.close > c2.close
        /\ 10 * (c1.high - c1.close) < (c1.close - c1.open) * 3
        /\ 10 * (c2.high - c2.close) < (c2.close - c2.open) * 3
        /\ 10 * (c3.high - c3.close) < (c3.close - c3.open) * 3>>

is_three_black_crows(c1, c2, c3) ==
    <<c1.open - c1.close > 0 /\ c2.open - c2.close > 0 /\ c3.open - c3.close > 0
        /\ c2.open < c1.open /\ c3.open < c2.open
        /\ c2.close < c1.close /\ c3.close < c2.close
        /\ 10 * (c1.close - c1.low) < (c1.open - c1.close) * 3
        /\ 10 * (c2.close - c2.low) < (c2.open - c2.close) * 3
        /\ 10 * (c3.close - c3.low) < (c3.open - c3.close) * 3>>

\* threshold = 0.2: high_diff < avg_range * 0.2 with avg_range = (range1 + range2) / 2
is_tweezer_top(c1, c2) ==
    <<c1.close > c1.open /\ c2.close < c2.open
        /\ 10 * Abs(c1.high - c2.high) < range_of(c1) + range_of(c2)>>

is_tweezer_bottom(c1, c2) ==
    <<c1.close < c1.open /\ c2.close > c2.open
        /\ 10 * Abs(c1.low - c2.low) < range_of(c1) + range_of(c2)>>

\* gap_threshold = 0.1, taken of min_price, the lowest of the three closes;
\* the result is (is_pattern, is_bullish)
is_abandoned_baby(c1, c2, c3) ==
    LET is_middle_doji == range_of(c2) > 0 /\ 10 * body_of(c2) < range_of(c2)
        gap1 == Min2(c2.low, c2.high) - Max2(c1.low, c1.high)
        gap2 == Min2(c3.low, c3.high) - Max2(c2.low, c2.high)
        is_bullish == c1.close < c1.open /\ c3.close > c3.open
        is_bearish == c1.close > c1.open /\ c3.close < c3.open
        min_price == Min2(c1.close, Min2(c2.close, c3.close))
    IN  IF is_middle_doji /\ (is_bullish \/ is_bearish)
        THEN IF is_bullish
             THEN <<10 * gap1 < -min_price /\ 10 * gap2 > min_price, TRUE>>
             ELSE <<10 * gap1 > min_price /\ 10 * gap2 < -min_price, FALSE>>
        ELSE <<FALSE, FALSE>>

\* penetration = 0.5: penetration_point = c1.close - body1 * 0.5
is_dark_cloud_cover(c1, c2) ==
    <<c1.close - c1.open > 0 /\ c2.close < c2.open /\ c2.open > c1.high
        /\ 2 * c2.close < 2 * c1.close - (c1.close - c1.open)>>

is_piercing_pattern(c1, c2) ==
    <<c1.open - c1.close > 0 /\ c2.close > c2.open /\ c2.open < c1.low
        /\ 2 * c2.close > 2 * c1.close + (c1.open - c1.close)>>

OneCandle == {"is_doji", "is_hammer", "is_shooting_star", "is_marubozu",
              "is_long_legged_doji", "is_dragonfly_doji", "is_gravestone_doji"}

TwoCandles == {"is_bullish_engulfing", "is_bearish_engulfing", "is_bullish_harami",
               "is_bearish_harami", "is_tweezer_top", "is_tweezer_bottom",
               "is_dark_cloud_cover", "is_piercing_pattern"}

ThreeCandles == {"is_morning_star", "is_evening_star", "is_three_white_soldiers",
                 "is_three_black_crows", "is_abandoned_baby"}

\* the predicate named fn on the candles cs
Pattern(fn, cs) ==
    CASE fn = "is_doji" -> is_doji(cs[1])
      [] fn = "is_hammer" -> is_hammer(cs[1])
      [] fn = "is_shooting_star" -> is_shooting_star(cs[1])
      [] fn = "is_marubozu" -> is_marubozu(cs[1])
      [] fn = "is_long_legged_doji" -> is_long_legged_doji(cs[1])
      [] fn = "is_dragonfly_doji" -> is_dragonfly_doji(cs[1])
      [] fn = "is_gravestone_doji" -> is_gravestone_doji(cs[1])
      [] fn = "is_bullish_engulfing" -> is_bullish_engulfing(cs[1], cs[2])
      [] fn = "is_bearish_engulfing" -> is_bearish_engulfing(cs[1], cs[2])
      [] fn = "is_bullish_harami" -> is_bullish_harami(cs[1], cs[2])
      [] fn = "is_bearish_harami" -> is_bearish_harami(cs[1], cs[2])
      [] fn = "is_tweezer_top" -> is_tweezer_top(cs[1], cs[2])
      [] fn = "is_tweezer_bottom" -> is_tweezer_bottom(cs[1], cs[2])
      [] fn = "is_dark_cloud_cover" -> is_dark_cloud_cover(cs[1], cs[2])
      [] fn = "is_piercing_pattern" -> is_piercing_pattern(cs[1], cs[2])
      [] fn = "is_morning_star" -> is_morning_star(cs[1], cs[2], cs[3])
      [] fn = "is_evening_star" -> is_evening_star(cs[1], cs[2], cs[3])
      [] fn = "is_three_white_soldiers" -> is_three_white_soldiers(cs[1], cs[2], cs[3])
      [] fn = "is_three_black_crows" -> is_three_black_crows(cs[1], cs[2], cs[3])
      [] fn = "is_abandoned_baby" -> is_abandoned_baby(cs[1], cs[2], cs[3])

\* candle shapes (open, high, low, close above a level): long bearish and
\* bullish, doji, hammer, shooting star, marubozu, long-legged, dragonfly and
\* gravestone doji, small bullish and bearish
Shapes == {<<12, 13, 1, 2>>, <<2, 13, 1, 12>>, <<6, 8, 4, 6>>, <<10, 11, 2, 11>>,
           <<3, 11, 2, 2>>, <<2, 12, 2, 12>>, <<6, 13, 0, 7>>, <<11, 12, 0, 12>>,
           <<1, 12, 0, 0>>, <<5, 8, 4, 7>>, <<7, 8, 4, 5>>}

Levels == {10, 20, 30}

Candles ==
    { [open |-> b + s[1], high |-> b + s[2], low |-> b + s[3], close |-> b + s[4]] :
      s \in Shapes, b \in Levels }

ShiftStep == 10

Scaled(cs, k) ==
    [i \in DOMAIN cs |-> [open |-> k * cs[i].open, high |-> k * cs[i].high,
                          low |-> k * cs[i].low, close |-> k * cs[i].close]]

Shifted(cs, d) ==
    [i \in DOMAIN cs |-> [open |-> cs[i].open + d, high |-> cs[i].high + d,
                          low |-> cs[i].low + d, close |-> cs[i].close + d]]

\* the calls of the predicates fns on n candles
PatternCalls(fns, n) ==
    { [fn |-> fn, done |-> FALSE, arg |-> cs] : fn \in fns, cs \in [1..n -> Candles] }

\* the predicate on the candles, on the candles scaled by k and on the
\* candles shifted by d
DetectPattern(k, d) ==
    /\ call.fn \in OneCandle \cup TwoCandles \cup ThreeCandles /\ ~call.done
    /\ call' = [fn |-> call.fn, done |-> TRUE, arg |-> call.arg, k |-> k, d |-> d,
                ret |-> Pattern(call.fn, call.arg),
                scaled |-> Pattern(call.fn, Scaled(call.arg, k)),
                shifted |-> Pattern(call.fn, Shifted(call.arg, d))]
    /\ UNCHANGED <<disk, inst, clock, calls, last, fetcher, analyzer, manager, output_dir>>

InitPatterns ==
    /\ NoJournal
    /\ NoManager
    /\ fetcher = NoFetcher
    /\ analyzer = NoAnalyzer
    /\ call \in PatternCalls(OneCandle, 1) \cup PatternCalls(TwoCandles, 2)
                \cup PatternCalls(ThreeCandles, 3)

NextPatterns ==
    \E k \in 2..MaxScale, d \in { i * ShiftStep : i \in 1..MaxShift } : DetectPattern(k, d)

SpecPatterns == InitPatterns /\ [][NextPatterns]_vars

\* C24: every candlestick predicate gives the same result on the candles, on
\* the candles scaled by k > 0 and on the candles shifted by d.
C24_PatternsScaleAndShiftInvariant ==
    call.fn \in OneCandle \cup TwoCandles \cup ThreeCandles /\ call.done
    => call.scaled = call.ret /\ call.shifted = call.ret

\* =====================================================================
\* get_intraday_signals over all analysis results: AnalysisResults holds,
\* for each of the five rules, inputs for each of its outcomes (BUY CALL,
\* BUY PUT, no micro-signal).

\* the final signals get_intraday_signals gives over the analysis results
FinalSignals ==
    { get_intraday_signals(r).final_signal.signal : r \in AnalysisResults }

\* C25: some combination of the micro-signals of get_intraday_signals gives
\* the final signal BUY CALL and some combination gives BUY PUT, so that
\* get_position_suggestions can return an action other than WAIT.
C25_DirectionalSignalReachable ==
    call.fn \in {"get_intraday_signals", "get_fear_greed_index", "_determine_final_signal"}
    => /\ "BUY CALL" \in FinalSignals
       /\ "BUY PUT" \in FinalSignals

\* =====================================================================
\* trade_logger.py: the reading functions of a TradeLogger.

\* the record get_trade would return when there is none
None == [trade_id |-> NoSuchId, status |-> "None"]

\* get_trade: the first record with this trade_id, or None
get_trade(trades, trade_id) ==
    IF FindTrade(trades, trade_id, 1) = 0 THEN None
    ELSE trades[FindTrade(trades, trade_id, 1)]

\* get_open_trades: the records whose status is OPEN
get_open_trades(trades) == SelectSeq(trades, LAMBDA t : t["status"] = "OPEN")

\* C26: right after id = log_trade(data) has returned, get_trade(id) is the
\* record just appended, and that record's trade_id is id.
C26_ReturnedIdFindsRecord ==
    last.op = "log_trade" /\ last.result = "ok"
    => LET trades == Journal(last.p)
       IN  /\ get_trade(trades, last.id) = trades[Len(trades)]
           /\ trades[Len(trades)]["trade_id"] = last.id

\* C27: after a completed log_trade or update_trade on a journal that is not
\* empty, performance counts the journal: total_trades its records,
\* closed_trades its CLOSED records and open_trades its OPEN records, the
\* length of get_open_trades().
C27_CountersMatchJournal ==
    Completed(last) /\ Journal(last.p) # <<>>
    => LET trades == Journal(last.p)
           performance == inst[last.p].performance
       IN  /\ performance["total_trades"] = Len(trades)
           /\ performance["closed_trades"] = Len(SelectSeq(trades, IsClosed))
           /\ performance["open_trades"] = Len(get_open_trades(trades))

\* =====================================================================
\* src/ai-brain/trade_tracking/performance_tracker.py: calculate_metrics
\* without filters, on the records of the TradeLogger it was given.

\* pnl_values = [t.get('pnl', 0) for t in closed_trades]
pnl_values(closed_trades) ==
    [i \in 1..Len(closed_trades) |-> Get(closed_trades[i], "pnl", 0)]

\* the drawdown loop of calculate_metrics: st = [peak, max_drawdown,
\* current_underwater, underwater_start, underwater_periods]
RECURSIVE UnderwaterLoop(_, _, _)
UnderwaterLoop(cumulative_pnl, i, st) ==
    IF i > Len(cumulative_pnl) THEN st
    ELSE LET pnl == cumulative_pnl[i]
             above == pnl > st.peak
             peak == IF above THEN pnl ELSE st.peak
             closes == above /\ st.current_underwater
             periods == IF closes
                        THEN Append(st.underwater_periods, <<st.underwater_start, i - 1>>)
                        ELSE st.underwater_periods
             underwater == st.current_underwater /\ ~closes
             drawdown == peak - pnl
             opens == drawdown > 0 /\ ~underwater
         IN  UnderwaterLoop(cumulative_pnl, i + 1,
                [peak |-> peak,
                 max_drawdown |-> Max2(st.max_drawdown, drawdown),
                 current_underwater |-> underwater \/ opens,
                 underwater_start |-> IF opens THEN i ELSE st.underwater_start,
                 underwater_periods |-> periods])

\* advanced_metrics of the trades in the order given
advanced_metrics_of(ordered_trades) ==
    IF Len(ordered_trades) > 1
    THEN LET cumulative_pnl == Cumulative(ordered_trades, 0)
             st == UnderwaterLoop(cumulative_pnl, 1,
                      [peak |-> cumulative_pnl[1], max_drawdown |-> 0,
                       current_underwater |-> FALSE, underwater_start |-> 0,
                       underwater_periods |-> <<>>])
         IN  [max_drawdown |-> st.max_drawdown]
    ELSE [max_drawdown |-> 0]

\* variant: the drawdown taken over the trades in journal order
calculate_metrics_unsorted(trades) ==
    LET closed_trades == SelectSeq(trades, IsClosed)
        pnls == pnl_values(closed_trades)
        winners == SelectSeq(pnls, LAMBDA x : x > 0)
    IN  IF closed_trades = <<>> THEN [error |-> TRUE]
        ELSE [error |-> FALSE,
              basic_metrics |-> [total_trades |-> Len(closed_trades),
                                 winning_trades |-> Len(winners),
                                 win_rate |-> Frac(Len(winners), Len(pnls)),
                                 total_pnl |-> SumSeq(pnls)],
              advanced_metrics |-> advanced_metrics_of(closed_trades)]

\* PerformanceTracker.calculate_metrics(): basic_metrics and advanced_metrics
calculate_metrics(trades) ==
    LET closed_trades == SelectSeq(trades, IsClosed)
        pnls == pnl_values(closed_trades)
        winners == SelectSeq(pnls, LAMBDA x : x > 0)
    IN  IF closed_trades = <<>> THEN [error |-> TRUE]
        ELSE [error |-> FALSE,
              basic_metrics |-> [total_trades |-> Len(closed_trades),
                                 winning_trades |-> Len(winners),
                                 win_rate |-> Frac(Len(winners), Len(pnls)),
                                 total_pnl |-> SumSeq(pnls)],
              advanced_metrics |-> advanced_metrics_of(SortedByExit(closed_trades))]

predict_signal_error ==
    [signal |-> "ERROR", confidence |-> Frac(0, 1)]

\* the results of predict_signal: a prediction, or the error result
PredictSignalResults == SourceSignals \cup {predict_signal_error}

PredictedCalls ==
    FuseCalls \cup
    { [fn |-> "fuse_signals", done |-> FALSE,
       arg |-> [ml_signal |-> predict_signal_error, indicator_signal |-> i,
                llm_signal |-> l, risk_profile |-> p]] :
      i \in SourceSignals, l \in LlmSignals, p \in Profiles }

InitPredicted ==
    /\ NoJournal
    /\ NoManager
    /\ fetcher = NoFetcher
    /\ analyzer = NoAnalyzer
    /\ call \in PredictedCalls

NextPredicted == FuseSignals

SpecPredicted == InitPredicted /\ [][NextPredicted]_vars

\* C30: fuse_signals never raises and returns a decision whose signal is
\* BUY CALL, BUY PUT or WAIT, for every ml_signal predict_signal can return,
\* its error result with signal "ERROR" included.
C30_FuseSignalsNeverRaises ==
    Returned("fuse_signals") /\ call.arg.ml_signal \in PredictSignalResults
        => /\ call.ret.raised = "none"
           /\ call.ret.signal \in FusionSignals

====
